---- MODULE Spec2Model ----
(***************************************************************************)
(* A model of the instrumented SBPF interpreter: Interpreter::step and its *)
(* helpers (src/src/interpreter.rs) driven by EbpfVm::execute_program      *)
(* (src/src/vm.rs).                                                        *)
(*                                                                         *)
(* A u64 is kept at its full width as the tuple of its 8 little-endian     *)
(* bytes (what u64::to_le_bytes returns), so byte views, taint per byte    *)
(* and wrapping arithmetic are those of the code.  The program counter     *)
(* reg[11] is kept as an integer: the representative of the u64 value      *)
(* modulo 2^64 that is nearest to zero, so a negative pc stands for a      *)
(* value that wrapped below zero (2^64 + pc).                              *)
(*                                                                         *)
(* The program text is an input.  An instruction word is fixed the first   *)
(* time it is fetched and stays fixed for the rest of the run, so the      *)
(* behaviours are those of every program over the instruction alphabet of  *)
(* the specification, of ProgLen words.                                    *)
(***************************************************************************)
EXTENDS Integers, Sequences, FiniteSets, TLC

\* ---------------------------------------------------------------- bounds

\* Number of 8-byte instruction words of the program text.
ProgLen == 3
\* Largest instruction-meter quota the context object starts with.
MaxQuota == 3
\* Largest config.max_call_depth.
MaxCallDepth == 3
\* Most step() invocations explored in one run (caps runs the meter does not).
MaxSteps == 8
\* Number of leading input bytes the fuzzer may have seeded with taint.
SeededBytes == 3
\* Most execute_program invocations on one VM.
MaxInvocations == 2
\* Largest account count the input region announces.
MaxAccounts == 2
MaxThreads == 3
MaxKeyCalls == 2

\* ------------------------------------------------------- program constants

INSN_SIZE == 8
FIRST_SCRATCH_REG == 6
SCRATCH_REGS == 4
FRAME_PTR_REG == 10

\* ------------------------------------------------------------ u64 values

Byte == 0..255

\* (k as i64 as u64).to_le_bytes() for an integer k of at most 32 bits.
FromI64(k) ==
    [i \in 1..8 |-> IF i <= 4 THEN (k \div (256 ^ (i - 1))) % 256
                    ELSE IF k < 0 THEN 255 ELSE 0]

Zero64 == FromI64(0)

\* The value as an integer; defined only below 2^31 (TLC stops on any other).
ToInt(v) ==
    CASE v[5] = 0 /\ v[6] = 0 /\ v[7] = 0 /\ v[8] = 0 /\ v[4] < 128 ->
        v[1] + 256 * v[2] + 65536 * v[3] + 16777216 * v[4]

Fits31(v) == v[5] = 0 /\ v[6] = 0 /\ v[7] = 0 /\ v[8] = 0 /\ v[4] < 128

RECURSIVE AddBytes(_, _, _, _)
AddBytes(a, b, i, carry) ==
    IF i > 8 THEN <<>>
    ELSE LET t == a[i] + b[i] + carry
         IN  <<t % 256>> \o AddBytes(a, b, i + 1, t \div 256)

\* u64::wrapping_add
wrapping_add(a, b) == AddBytes(a, b, 1, 0)

\* u64::wrapping_sub: a + ~b + 1
wrapping_sub(a, b) == AddBytes(a, [i \in 1..8 |-> 255 - b[i]], 1, 1)

\* Unsigned order of two u64: -1, 0 or 1.
RECURSIVE CmpFrom(_, _, _)
CmpFrom(a, b, i) ==
    IF i = 0 THEN 0
    ELSE IF a[i] < b[i] THEN -1
    ELSE IF a[i] > b[i] THEN 1
    ELSE CmpFrom(a, b, i - 1)

CmpU(a, b) == CmpFrom(a, b, 8)

\* v as i64: order of the two's complement values (sign bit flipped).
FlipSign(v) == [v EXCEPT ![8] = (v[8] + 128) % 256]

CmpS(a, b) == CmpU(FlipSign(a), FlipSign(b))

\* Bitwise and of two bytes.
RECURSIVE AndBits(_, _, _)
AndBits(x, y, n) ==
    IF n = 0 THEN 0
    ELSE 2 * AndBits(x \div 2, y \div 2, n - 1) + (IF x % 2 = 1 /\ y % 2 = 1 THEN 1 ELSE 0)

And64(a, b) == [i \in 1..8 |-> AndBits(a[i], b[i], 8)]

\* Zero-extension of the low w bytes of v.
ZeroExt(v, w) == [i \in 1..8 |-> IF i <= w THEN v[i] ELSE 0]

\* v as i32 as i64 as u64: sign-extension of the low 4 bytes.
SignExt32(v) == [i \in 1..8 |-> IF i <= 4 THEN v[i] ELSE IF v[4] >= 128 THEN 255 ELSE 0]

\* Bitwise or of two bytes.
RECURSIVE OrBits(_, _, _)
OrBits(x, y, n) ==
    IF n = 0 THEN 0
    ELSE 2 * OrBits(x \div 2, y \div 2, n - 1) + (IF x % 2 = 1 \/ y % 2 = 1 THEN 1 ELSE 0)

Or64(a, b) == [i \in 1..8 |-> OrBits(a[i], b[i], 8)]

\* (v as u64).wrapping_shl(32)
Shl32(v) == [i \in 1..8 |-> IF i <= 4 THEN 0 ELSE v[i - 4]]

\* (v as i64).wrapping_neg() as u64
wrapping_neg(v) == wrapping_sub(Zero64, v)

\* v as i64 < 0
IsNeg64(v) == v[8] >= 128

\* The divisors the byte-wise long division below handles in 31-bit arithmetic.
SmallDivisor(b) == b # Zero64 /\ b[3] < 128 /\ \A i \in 4..8 : b[i] = 0

\* The remainder of the bytes of a from the most significant down to byte i,
\* divided by d.
RECURSIVE RemAbove(_, _, _)
RemAbove(a, d, i) == IF i > 8 THEN 0 ELSE (RemAbove(a, d, i + 1) * 256 + a[i]) % d

\* a / b and a % b on u64 for b # 0, as <<quotient, remainder>>: long division
\* byte by byte for a divisor below 2^23; for a larger one the quotient when it
\* is 0 or 1 (TLC stops on any other pair).
UDivMod(a, b) ==
    CASE SmallDivisor(b) ->
             LET d == ToInt(b)
             IN  <<[i \in 1..8 |-> (RemAbove(a, d, i + 1) * 256 + a[i]) \div d],
                   FromI64(RemAbove(a, d, 1))>>
      [] ~SmallDivisor(b) /\ b # Zero64 /\ CmpU(a, b) < 0 -> <<Zero64, a>>
      [] ~SmallDivisor(b) /\ b # Zero64 /\ CmpU(a, b) >= 0
           /\ CmpU(wrapping_sub(a, b), b) < 0 -> <<FromI64(1), wrapping_sub(a, b)>>

\* Rust's a / b on u64; dividing by zero panics (the caller handles b = 0).
UDiv64(a, b) == UDivMod(a, b)[1]

\* Rust's a % b on u64.
URem64(a, b) == UDivMod(a, b)[2]

\* |v| of v as i64, as a u64 (2^63 for i64::MIN).
Abs64(v) == IF IsNeg64(v) THEN wrapping_neg(v) ELSE v

\* Rust's a / b on i64 (truncating), as u64; b # 0 and not (a = MIN and b = -1).
SDiv64(a, b) ==
    LET q == UDiv64(Abs64(a), Abs64(b))
    IN  IF IsNeg64(a) # IsNeg64(b) THEN wrapping_neg(q) ELSE q

\* Rust's a % b on i64: the remainder has the sign of the dividend.
SRem64(a, b) ==
    LET r == URem64(Abs64(a), Abs64(b))
    IN  IF IsNeg64(a) THEN wrapping_neg(r) ELSE r

I64_MIN_BYTES == <<0, 0, 0, 0, 0, 0, 0, 128>>
MinusOne64 == <<255, 255, 255, 255, 255, 255, 255, 255>>

\* --------------------------------------------------- guest address space

\* Guest bases of the regions (ebpf.rs / novafuzz_types::consts).
MM_PROGRAM_TEXT_START == <<0, 0, 0, 0, 1, 0, 0, 0>>
MM_STACK_START == <<0, 0, 0, 0, 2, 0, 0, 0>>
MM_INPUT_START == <<0, 0, 0, 0, 4, 0, 0, 0>>

\* executable.get_text_bytes(): the guest address of the program text.
program_vm_addr == MM_PROGRAM_TEXT_START

\* The bytes the host serialized into the input region: eight data bytes, then
\* a little-endian u64 holding the guest address of instruction word 2.
InputInit == <<17, 34, 51, 68, 85, 102, 119, 136, 16, 0, 0, 0, 1, 0, 0, 0>>

\* ------------------------------------------------ dialects and configuration

\* SBPFVersion capability flags consulted by the interpreter.
V0 == [name |-> "V0", dynamic_stack_frames |-> FALSE, enable_pqr |-> FALSE,
       explicit_sign_extension_of_results |-> FALSE, swap_sub_reg_imm_operands |-> FALSE,
       disable_neg |-> FALSE, callx_uses_src_reg |-> FALSE, disable_lddw |-> FALSE,
       disable_le |-> FALSE, move_memory_instruction_classes |-> FALSE,
       static_syscalls |-> FALSE]

V2 == [name |-> "V2", dynamic_stack_frames |-> TRUE, enable_pqr |-> TRUE,
       explicit_sign_extension_of_results |-> TRUE, swap_sub_reg_imm_operands |-> TRUE,
       disable_neg |-> TRUE, callx_uses_src_reg |-> TRUE, disable_lddw |-> TRUE,
       disable_le |-> TRUE, move_memory_instruction_classes |-> TRUE,
       static_syscalls |-> FALSE]

V3 == [name |-> "V3", dynamic_stack_frames |-> TRUE, enable_pqr |-> FALSE,
       explicit_sign_extension_of_results |-> FALSE, swap_sub_reg_imm_operands |-> FALSE,
       disable_neg |-> FALSE, callx_uses_src_reg |-> FALSE, disable_lddw |-> FALSE,
       disable_le |-> FALSE, move_memory_instruction_classes |-> FALSE,
       static_syscalls |-> TRUE]

SBPFVersions == {V0, V2, V3}

\* Config::default().stack_frame_size
StackFrameSize == 4096

\* The configurations explored: vm::Config and the dialect of the executable.
Configs ==
    { [max_call_depth |-> d, stack_frame_size |-> StackFrameSize,
       enable_stack_frame_gaps |-> g, enable_instruction_meter |-> m,
       sbpf_version |-> v] :
         d \in 0..MaxCallDepth, g \in BOOLEAN, m \in BOOLEAN, v \in SBPFVersions }

\* Config::stack_size()
stack_size(cfg) == cfg.stack_frame_size * cfg.max_call_depth

\* ----------------------------------------------------------------- state

VARIABLES
    phase,                      \* "new", "running", "halted", "done", "panic"
    config,                     \* executable.get_config() and get_sbpf_version()
    text,                       \* program text: word index -> instruction
    reg,                        \* Interpreter::reg[0..10]
    pc,                         \* Interpreter::reg[11]
    vm_registers,               \* EbpfVm::registers[0..10]
    vm_pc,                      \* EbpfVm::registers[11]
    call_depth,                 \* EbpfVm::call_depth
    call_frames,                \* EbpfVm::call_frames
    previous_instruction_meter, \* EbpfVm::previous_instruction_meter
    due_insn_count,             \* EbpfVm::due_insn_count
    program_result,             \* EbpfVm::program_result
    remaining,                  \* ContextObject::get_remaining()
    initial_insn_count,         \* execute_program's local of that name
    mem,                        \* guest bytes written so far (address -> byte)
    taint,                      \* taint_engine.state (address -> origin)
    instruction_record,         \* taint_engine.instruction_record
    jump_log,                   \* jump_tracer's log
    returned,                   \* what execute_program returned
    invocation,                 \* execute_program invocations on this VM so far
    last,                       \* the latest step(): what it did, the state it started from
    nsteps,                     \* step() invocations of this run
    syscalled,                  \* a builtin was invoked in this run
    shadow,                     \* per live frame: the registers and pc at its call
    parse_stage,                \* where parse_input_from_memory is: "idle", "start", "accounts", "done", "panic"
    input_len,                  \* length of the input region the parser reads
    input,                      \* the input bytes the parser has read so far (offset -> byte)
    top_ptr,                    \* parse_input_from_memory's top_ptr
    mapping,                    \* the SemanticMapping, as the runs of offsets inserted
    account_number,             \* parse_input_from_memory's account_number
    idx,                        \* the account loop's idx
    key_cell,                   \* RUNTIME_ENVIRONMENT_KEY's value, once stored
    key_once,                   \* RUNTIME_ENVIRONMENT_KEY's Once: "incomplete", "running", "complete"
    key_stores,                 \* how often an initializer's value was stored
    thr,                        \* per thread: where it is in get_runtime_environment_key
    twin,                       \* a second run of the same steps from another taint state
    seeded                      \* the taint state the fuzzer seeded before the first run

\* The state of parse_input_from_memory.
parse_vars == <<parse_stage, input_len, input, top_ptr, mapping, account_number, idx>>

\* The state of the VM, its interpreter and its tracers.
vm_vars == <<phase, config, text, reg, pc, vm_registers, vm_pc, call_depth, call_frames,
             previous_instruction_meter, due_insn_count, program_result, remaining,
             initial_insn_count, mem,
             taint, instruction_record, jump_log, returned, invocation, last, nsteps,
             syscalled, shadow, twin, seeded>>

\* The process-global key cell and the threads that ask for it.
key_vars == <<key_cell, key_once, key_stores, thr>>

vars == <<vm_vars, parse_vars, key_vars>>

\* ProgramResult
Ok(v) == <<"Ok", v>>
Err(e) == <<"Err", e>>

\* CallFrame::default()
DefaultFrame ==
    [caller_saved_registers |-> [i \in 1..SCRATCH_REGS |-> Zero64],
     frame_pointer |-> Zero64, target_pc |-> 0]

\* A program-text word that no step has fetched yet.
Unfetched == [opc |-> "unfetched", dst |-> 0, src |-> 0, off |-> 0, imm |-> 0]

NoStep ==
    [pc |-> 0, opc |-> "none", ret |-> "none", fault |-> "none", executed |-> FALSE,
     frame_idx |-> {}, call_depth |-> 0, reg |-> <<>>, taint |-> <<>>]

\* No second run is followed.
Untwinned == [live |-> FALSE, agrees |-> TRUE, taint |-> <<>>, instruction_record |-> <<>>]

\* EbpfVm::new: the register file of a fresh VM.
NewRegisters(cfg) ==
    [r \in 0..10 |->
        IF r = FRAME_PTR_REG
        THEN wrapping_add(MM_STACK_START,
                 FromI64(IF cfg.sbpf_version.dynamic_stack_frames
                         THEN stack_size(cfg) ELSE cfg.stack_frame_size))
        ELSE Zero64]

\* ----------------------------------------------------------- memory mapping

\* The regions of the mapping: stack and input, both writable.
Regions(cfg) ==
    { [name |-> "stack", base |-> MM_STACK_START, len |-> stack_size(cfg), writable |-> TRUE],
      [name |-> "input", base |-> MM_INPUT_START, len |-> Len(InputInit), writable |-> TRUE] }

\* The region holding the w bytes at vm_addr, if any.
RegionsOf(cfg, vm_addr, w) ==
    { r \in Regions(cfg) :
        LET d == wrapping_sub(vm_addr, r.base)
        IN  Fits31(d) /\ ToInt(d) + w <= r.len }

\* The address i bytes after vm_addr.
AddrPlus(vm_addr, i) == wrapping_add(vm_addr, FromI64(i))

\* The byte a region holds before any store.
InitialByte(cfg, a) ==
    IF RegionsOf(cfg, a, 1) # {} /\ (CHOOSE r \in RegionsOf(cfg, a, 1) : TRUE).name = "input"
    THEN InputInit[ToInt(wrapping_sub(a, MM_INPUT_START)) + 1]
    ELSE 0

ByteAt(cfg, m, a) == IF a \in DOMAIN m THEN m[a] ELSE InitialByte(cfg, a)

\* MemoryMapping::load::<T>: Ok(the w bytes, zero-extended) or AccessViolation.
load(cfg, m, vm_addr, w) ==
    IF RegionsOf(cfg, vm_addr, w) = {} THEN Err("AccessViolation")
    ELSE Ok([i \in 1..8 |-> IF i <= w THEN ByteAt(cfg, m, AddrPlus(vm_addr, i - 1)) ELSE 0])

\* MemoryMapping::store::<T>: Ok(the memory after the store) or AccessViolation.
store(cfg, m, value, vm_addr, w) ==
    IF \A r \in RegionsOf(cfg, vm_addr, w) : ~r.writable THEN Err("AccessViolation")
    ELSE LET written == { AddrPlus(vm_addr, i - 1) : i \in 1..w }
         IN  Ok([a \in DOMAIN m \cup written |->
                   IF \E i \in 1..w : a = AddrPlus(vm_addr, i - 1)
                   THEN value[CHOOSE i \in 1..w : a = AddrPlus(vm_addr, i - 1)]
                   ELSE m[a]])

\* ------------------------------------------------------------ taint engine

Clean == <<"Clean">>
Tainted(o) == <<"Tainted", o>>

RegisterByte(r, i) == <<"Register", r, i>>
MemoryByte(a) == <<"Memory", a>>

\* UnifiedAddress::address_mapping(base, length): the `length` byte addresses from
\* base on; a base that is a register index names that register's bytes.
address_mapping(base, length) ==
    IF Fits31(base) /\ ToInt(base) < 12
    THEN [i \in 1..length |-> RegisterByte(ToInt(base), i - 1)]
    ELSE [i \in 1..length |-> MemoryByte(AddrPlus(base, i - 1))]

\* taint_engine.state.get(addr), None read as Clean.
TaintOf(t, addr) == IF addr \in DOMAIN t THEN Tainted(t[addr]) ELSE Clean

is_tainted(ts) == ts # Clean

\* taint_engine.clear_taint_vector
clear_taint_vector(t, addrs) ==
    [a \in DOMAIN t \ { addrs[i] : i \in DOMAIN addrs } |-> t[a]]

\* taint_engine.propagate: `to` takes the taint of `from`.
propagate(t, from, to) ==
    IF from \in DOMAIN t
    THEN [a \in DOMAIN t \cup {to} |-> IF a = to THEN t[from] ELSE t[a]]
    ELSE [a \in DOMAIN t \ {to} |-> t[a]]

\* -------------------------------------------------- executable and loader

\* executable.get_function_registry().lookup_by_key(key): the target pc of a
\* registered function.  A function is registered at every word of the text
\* and at the word just past it; the function at word 1 is registered a
\* second time under the key of a builtin, a key both registries resolve.
\* executable.get_loader().get_function_registry(): the keys of the builtins.
SyscallKeys == {7}

FunctionKeys == (0..ProgLen) \cup SyscallKeys
function_lookup(key) == IF key \in 0..ProgLen THEN key ELSE 1

\* SBPFVersion::calculate_call_imm_target_pc
calculate_call_imm_target_pc(cfg, cur_pc, imm) ==
    IF cfg.sbpf_version.static_syscalls THEN cur_pc + imm + 1 ELSE imm

\* What an invoked builtin may leave in vm.program_result.
BuiltinResults == { Ok(FromI64(9)), Err("SyscallError") }

\* ------------------------------------------------------- interpreter state

\* The state a step works on, with what the step reports.
Cur ==
    [reg |-> reg, pc |-> pc, next_pc |-> pc + 1, vm_registers |-> vm_registers,
     vm_pc |-> vm_pc, call_depth |-> call_depth, call_frames |-> call_frames,
     due_insn_count |-> due_insn_count, program_result |-> program_result,
     mem |-> mem, taint |-> taint, instruction_record |-> instruction_record,
     jump_log |-> jump_log, syscalled |-> syscalled,
     ret |-> "true", fault |-> "none", executed |-> FALSE, frame_idx |-> {}]

\* A fault that leaves vm.registers[11] as it was.
throw_error_no_commit(s, err) ==
    [s EXCEPT !.program_result = Err(err), !.ret = "false", !.fault = err]

\* A throw_error! that also rolls the due count back.
throw_error_refunding(s, err) ==
    [s EXCEPT !.vm_pc = s.pc, !.program_result = Err(err),
              !.ret = "false", !.fault = err, !.due_insn_count = @ - 1]

\* throw_error!: commit the pc, record the fault, return false.
throw_error(s, err) ==
    [s EXCEPT !.vm_pc = s.pc, !.program_result = Err(err),
              !.ret = "false", !.fault = err]

\* A Rust panic: the thread unwinds out of step().
panic(s) == [s EXCEPT !.ret = "panic"]

\* A tracer that records the fall-through edge whatever the target.
trace_jump_fallthrough(s, from_pc, to_pc) ==
    [s EXCEPT !.jump_log = Append(@, <<from_pc, from_pc + 1>>)]

\* jump_tracer.trace_jump
trace_jump(s, from_pc, to_pc) ==
    [s EXCEPT !.jump_log = Append(@, <<from_pc, to_pc>>)]

\* A check_pc! that takes every target.
check_pc_unchecked(s, target_pc) == [s EXCEPT !.next_pc = target_pc]

\* check_pc!: target_pc * 8 + 8 must lie within the text.
check_pc(s, target_pc) ==
    IF target_pc >= 0 /\ target_pc * INSN_SIZE + INSN_SIZE <= ProgLen * INSN_SIZE
    THEN [s EXCEPT !.next_pc = target_pc]
    ELSE throw_error(s, "CallOutsideTextSegment")

\* Interpreter::taint_propagate_array
RECURSIVE PropagateFrom(_, _, _, _, _)
PropagateFrom(t, froms, tos, i, length) ==
    IF i > length THEN t
    ELSE PropagateFrom(propagate(t, froms[i], tos[i]), froms, tos, i + 1, length)

\* The propagation with source and destination exchanged.
taint_propagate_array_swapped(t, from, to, length) ==
    PropagateFrom(t, address_mapping(to, length), address_mapping(from, length), 1, length)

taint_propagate_array(t, from, to, length) ==
    PropagateFrom(t, address_mapping(from, length), address_mapping(to, length), 1, length)

\* Interpreter::taint_imm_compare: the records appended, in order.
RECURSIVE ImmCompareFrom(_, _, _, _, _, _)
ImmCompareFrom(t, opcode, imm_value, dst_addrs, dst_value, i) ==
    IF i > Len(dst_addrs) THEN <<>>
    ELSE LET dst_taint_state == TaintOf(t, dst_addrs[i])
             rest == ImmCompareFrom(t, opcode, imm_value, dst_addrs, dst_value, i + 1)
         IN  IF is_tainted(dst_taint_state)
             THEN <<[opcode |-> opcode,
                     src |-> [addr |-> MemoryByte(Zero64), value |-> imm_value[i],
                              taint |-> Clean],
                     dst |-> [addr |-> dst_addrs[i], value |-> dst_value[i],
                              taint |-> dst_taint_state]]>> \o rest
             ELSE rest

\* A comparison record that takes the immediate's bytes from dst.
taint_imm_compare_dst_bytes(s, opcode, imm_value, dst, dst_value, addr_length) ==
    [s EXCEPT !.instruction_record =
        @ \o ImmCompareFrom(s.taint, opcode, dst_value,
                            address_mapping(FromI64(dst), addr_length), dst_value, 1)]

\* A comparison recorder that writes the number of records it appended to r0.
taint_imm_compare_reporting(s, opcode, imm_value, dst, dst_value, addr_length) ==
    LET records == ImmCompareFrom(s.taint, opcode, imm_value,
                                  address_mapping(FromI64(dst), addr_length), dst_value, 1)
    IN  [s EXCEPT !.instruction_record = @ \o records,
                  !.reg[0] = FromI64(Len(records))]

taint_imm_compare(s, opcode, imm_value, dst, dst_value, addr_length) ==
    [s EXCEPT !.instruction_record =
        @ \o ImmCompareFrom(s.taint, opcode, imm_value,
                            address_mapping(FromI64(dst), addr_length), dst_value, 1)]

\* Interpreter::taint_reg_compare: the records appended, in order.
RECURSIVE RegCompareFrom(_, _, _, _, _, _, _)
RegCompareFrom(t, opcode, src_addrs, src_value, dst_addrs, dst_value, i) ==
    IF i > Len(dst_addrs) THEN <<>>
    ELSE LET dst_taint_state == TaintOf(t, dst_addrs[i])
             src_taint_state == TaintOf(t, src_addrs[i])
             rest == RegCompareFrom(t, opcode, src_addrs, src_value, dst_addrs, dst_value, i + 1)
         IN  IF is_tainted(dst_taint_state) \/ is_tainted(src_taint_state)
             THEN <<[opcode |-> opcode,
                     src |-> [addr |-> src_addrs[i], value |-> src_value[i],
                              taint |-> src_taint_state],
                     dst |-> [addr |-> dst_addrs[i], value |-> dst_value[i],
                              taint |-> dst_taint_state]]>> \o rest
             ELSE rest

\* A comparison record with the two operands exchanged.
taint_reg_compare_swapped(s, opcode, src, src_value, dst, dst_value, addr_length) ==
    [s EXCEPT !.instruction_record =
        @ \o RegCompareFrom(s.taint, opcode,
                            address_mapping(FromI64(dst), addr_length), dst_value,
                            address_mapping(FromI64(src), addr_length), src_value, 1)]

taint_reg_compare(s, opcode, src, src_value, dst, dst_value, addr_length) ==
    [s EXCEPT !.instruction_record =
        @ \o RegCompareFrom(s.taint, opcode,
                            address_mapping(FromI64(src), addr_length), src_value,
                            address_mapping(FromI64(dst), addr_length), dst_value, 1)]

\* A frame that resumes the caller at the call itself.
saved_frame_same_pc(s) ==
    [caller_saved_registers |->
         [i \in 1..SCRATCH_REGS |-> s.reg[FIRST_SCRATCH_REG + i - 1]],
     frame_pointer |-> s.reg[FRAME_PTR_REG],
     target_pc |-> s.pc]

\* push_frame: what it writes into call_frames[call_depth].
saved_frame(s) ==
    [caller_saved_registers |->
         [i \in 1..SCRATCH_REGS |-> s.reg[FIRST_SCRATCH_REG + i - 1]],
     frame_pointer |-> s.reg[FRAME_PTR_REG],
     target_pc |-> s.pc + 1]

\* push_frame: call_depth as usize == config.max_call_depth
call_depth_exceeded(cfg, depth) == depth = cfg.max_call_depth

\* Interpreter::push_frame; ret stays "true" when the frame was pushed.
push_frame(cfg, s) ==
    IF s.call_depth + 1 > Len(s.call_frames)
    THEN panic([s EXCEPT !.frame_idx = @ \cup {s.call_depth}])
    ELSE LET frame == saved_frame(s)
             s1 == [s EXCEPT !.call_frames[s.call_depth + 1] = frame,
                             !.frame_idx = @ \cup {s.call_depth},
                             !.call_depth = @ + 1]
         IN  IF call_depth_exceeded(cfg, s1.call_depth)
             THEN throw_error(s1, "CallDepthExceeded")
             ELSE IF ~cfg.sbpf_version.dynamic_stack_frames
             THEN [s1 EXCEPT !.reg[FRAME_PTR_REG] =
                      wrapping_add(@, FromI64(cfg.stack_frame_size
                          * (IF cfg.enable_stack_frame_gaps THEN 2 ELSE 1)))]
             ELSE s1

\* EbpfVm::invoke_function: the builtin leaves its result in program_result.
invoke_function(s, result) == [s EXCEPT !.program_result = result, !.syscalled = TRUE]

\* Interpreter::dispatch_syscall followed by the caller's match on its result:
\* the outcomes over every result of the builtin.  previous_instruction_meter -
\* due_insn_count underflows when the meter is off and the due count has passed
\* the quota: a build with overflow checks panics there.
dispatch_syscall(s) ==
    (IF s.due_insn_count > previous_instruction_meter THEN {panic(s)} ELSE {})
    \cup
    { LET s1 == [s EXCEPT !.vm_registers =
                     [r \in 0..10 |-> IF r < 6 THEN s.reg[r] ELSE @[r]]]
          s2 == [invoke_function(s1, result) EXCEPT !.due_insn_count = 0]
      IN  IF result[1] = "Ok"
          THEN [s2 EXCEPT !.reg[0] = result[2]]
          ELSE [s2 EXCEPT !.ret = "false", !.fault = result[2]]
      : result \in BuiltinResults }

\* ------------------------------------------------------------- opcodes

ClassicLoads == {"LD_B_REG", "LD_H_REG", "LD_W_REG", "LD_DW_REG"}
MovedLoads == {"LD_1B_REG", "LD_2B_REG", "LD_4B_REG", "LD_8B_REG"}
ClassicImmStores == {"ST_B_IMM", "ST_H_IMM", "ST_W_IMM", "ST_DW_IMM"}
MovedImmStores == {"ST_1B_IMM", "ST_2B_IMM", "ST_4B_IMM", "ST_8B_IMM"}
ClassicRegStores == {"ST_B_REG", "ST_H_REG", "ST_W_REG", "ST_DW_REG"}
MovedRegStores == {"ST_1B_REG", "ST_2B_REG", "ST_4B_REG", "ST_8B_REG"}
Loads == ClassicLoads \cup MovedLoads
ImmStores == ClassicImmStores \cup MovedImmStores
RegStores == ClassicRegStores \cup MovedRegStores

JumpImmOps == {"JEQ_IMM", "JGT_IMM", "JGE_IMM", "JLT_IMM", "JLE_IMM", "JSET_IMM",
               "JNE_IMM", "JSGT_IMM", "JSGE_IMM", "JSLT_IMM", "JSLE_IMM"}
JumpRegOps == {"JEQ_REG", "JGT_REG", "JGE_REG", "JLT_REG", "JLE_REG", "JSET_REG",
               "JNE_REG", "JSGT_REG", "JSGE_REG", "JSLT_REG", "JSLE_REG"}

\* The opcodes whose jump, call or return arm of step() calls trace_jump.
ControlFlowOps ==
    {"JA", "CALL_REG", "CALL_IMM", "SYSCALL", "RETURN", "EXIT"} \cup JumpImmOps \cup JumpRegOps

\* Division and modulo of the classic encoding (without PQR).
LegacyDivOps ==
    {"DIV32_IMM", "DIV32_REG", "MOD32_IMM", "MOD32_REG",
     "DIV64_IMM", "DIV64_REG", "MOD64_IMM", "MOD64_REG"}

\* Unsigned and signed division and remainder of the PQR class.
PqrUnsignedDivOps ==
    {"UDIV32_IMM", "UDIV32_REG", "UREM32_IMM", "UREM32_REG",
     "UDIV64_IMM", "UDIV64_REG", "UREM64_IMM", "UREM64_REG"}
PqrSignedDivOps ==
    {"SDIV32_IMM", "SDIV32_REG", "SREM32_IMM", "SREM32_REG",
     "SDIV64_IMM", "SDIV64_REG", "SREM64_IMM", "SREM64_REG"}

DivOps == LegacyDivOps \cup PqrUnsignedDivOps \cup PqrSignedDivOps

DivIsImm(opc) ==
    opc \in {"DIV32_IMM", "MOD32_IMM", "DIV64_IMM", "MOD64_IMM", "UDIV32_IMM", "UREM32_IMM",
             "UDIV64_IMM", "UREM64_IMM", "SDIV32_IMM", "SREM32_IMM", "SDIV64_IMM", "SREM64_IMM"}
DivIs32(opc) ==
    opc \in {"DIV32_IMM", "DIV32_REG", "MOD32_IMM", "MOD32_REG", "UDIV32_IMM", "UDIV32_REG",
             "UREM32_IMM", "UREM32_REG", "SDIV32_IMM", "SDIV32_REG", "SREM32_IMM", "SREM32_REG"}
DivIsRem(opc) ==
    opc \in {"MOD32_IMM", "MOD32_REG", "MOD64_IMM", "MOD64_REG", "UREM32_IMM", "UREM32_REG",
             "UREM64_IMM", "UREM64_REG", "SREM32_IMM", "SREM32_REG", "SREM64_IMM", "SREM64_REG"}

\* Multiplication of the classic encoding, negation, and the multiplications
\* of the PQR class.
MulOps == {"MUL32_IMM", "MUL32_REG", "MUL64_IMM", "MUL64_REG"}
NegOps == {"NEG32", "NEG64"}
PqrMulOps ==
    {"LMUL32_IMM", "LMUL32_REG", "LMUL64_IMM", "LMUL64_REG",
     "UHMUL64_IMM", "UHMUL64_REG", "SHMUL64_IMM", "SHMUL64_REG"}

\* An opcode byte that no arm of the match names.
NoHandlerOps == {"INVALID"}

\* The opcodes whose match arm carries an `if` guard on the dialect.
GuardedOps ==
    {"LD_DW_IMM", "HOR64_IMM", "LE", "SYSCALL"}
    \cup ClassicLoads \cup ClassicImmStores \cup ClassicRegStores
    \cup MovedLoads \cup MovedImmStores \cup MovedRegStores
    \cup MulOps \cup LegacyDivOps \cup NegOps
    \cup PqrMulOps \cup PqrUnsignedDivOps \cup PqrSignedDivOps

\* The access width, in bytes, of a load or store opcode.
MemWidth(opc) ==
    CASE opc \in {"LD_B_REG", "LD_1B_REG", "ST_B_IMM", "ST_1B_IMM", "ST_B_REG", "ST_1B_REG"} -> 1
      [] opc \in {"LD_H_REG", "LD_2B_REG", "ST_H_IMM", "ST_2B_IMM", "ST_H_REG", "ST_2B_REG"} -> 2
      [] opc \in {"LD_W_REG", "LD_4B_REG", "ST_W_IMM", "ST_4B_IMM", "ST_W_REG", "ST_4B_REG"} -> 4
      [] opc \in {"LD_DW_REG", "LD_8B_REG", "ST_DW_IMM", "ST_8B_IMM", "ST_DW_REG", "ST_8B_REG"} -> 8

\* A dialect test that lets the moved memory encoding through everywhere.
ArmGuard_moved_always(v, opc) ==
    CASE opc \in ClassicLoads \cup ClassicImmStores \cup ClassicRegStores ->
             ~v.move_memory_instruction_classes
      [] opc \in MovedLoads \cup MovedImmStores \cup MovedRegStores -> TRUE
      [] opc \in GuardedOps \cup NoHandlerOps -> FALSE
      [] OTHER -> TRUE

\* The `if` guard of the opcode's match arm under dialect v (TRUE: no guard).
ArmGuard(v, opc) ==
    CASE opc \in ClassicLoads \cup ClassicImmStores \cup ClassicRegStores ->
             ~v.move_memory_instruction_classes
      [] opc \in MovedLoads \cup MovedImmStores \cup MovedRegStores ->
             v.move_memory_instruction_classes
      [] opc = "LD_DW_IMM" -> ~v.disable_lddw
      [] opc \in MulOps \cup LegacyDivOps -> ~v.enable_pqr
      [] opc \in NegOps -> ~v.disable_neg
      [] opc \in PqrMulOps -> v.enable_pqr
      [] opc \in PqrUnsignedDivOps \cup PqrSignedDivOps -> v.enable_pqr
      [] opc = "HOR64_IMM" -> v.disable_lddw
      [] opc = "LE" -> ~v.disable_le
      [] opc = "SYSCALL" -> v.static_syscalls
      [] opc \in NoHandlerOps -> FALSE
      [] OTHER -> TRUE

\* ------------------------------------------------------ opcode semantics

\* (reg as i64).wrapping_add(insn.off as i64) as u64
VmAddr(base, off) == wrapping_add(base, FromI64(off))

\* A load that also clears the taint of the register bytes it zero-extends.
Load_clears_upper(cfg, s, insn) ==
    LET w == MemWidth(insn.opc)
        vm_addr == VmAddr(s.reg[insn.src], insn.off)
        r == load(cfg, s.mem, vm_addr, w)
    IN  IF r[1] = "Err" THEN throw_error(s, r[2])
        ELSE [s EXCEPT !.reg[insn.dst] = r[2],
                       !.taint = taint_propagate_array(
                                     clear_taint_vector(@, address_mapping(FromI64(insn.dst), 8)),
                                     vm_addr, FromI64(insn.dst), w)]

\* LD_*_REG
Load(cfg, s, insn) ==
    LET w == MemWidth(insn.opc)
        vm_addr == VmAddr(s.reg[insn.src], insn.off)
        r == load(cfg, s.mem, vm_addr, w)
    IN  IF r[1] = "Err" THEN throw_error(s, r[2])
        ELSE [s EXCEPT !.reg[insn.dst] = r[2],
                       !.taint = taint_propagate_array(@, vm_addr, FromI64(insn.dst), w)]

\* An immediate store that writes the bytes and leaves their taint.
StoreImm_keeps_taint(cfg, s, insn) ==
    LET w == MemWidth(insn.opc)
        vm_addr == VmAddr(s.reg[insn.dst], insn.off)
        r == store(cfg, s.mem, FromI64(insn.imm), vm_addr, w)
    IN  IF r[1] = "Err" THEN throw_error(s, r[2]) ELSE [s EXCEPT !.mem = r[2]]

\* An immediate store that marks the bytes it writes as tainted, origin 0.
StoreImm_taints(cfg, s, insn) ==
    LET w == MemWidth(insn.opc)
        vm_addr == VmAddr(s.reg[insn.dst], insn.off)
        r == store(cfg, s.mem, FromI64(insn.imm), vm_addr, w)
    IN  IF r[1] = "Err" THEN throw_error(s, r[2])
        ELSE [s EXCEPT !.mem = r[2],
                       !.taint = [a \in DOMAIN @ \cup { MemoryByte(AddrPlus(vm_addr, i)) :
                                                         i \in 0..(w - 1) } |->
                                     IF a \in DOMAIN @ THEN @[a] ELSE 0]]

\* ST_*_IMM
StoreImm(cfg, s, insn) ==
    LET w == MemWidth(insn.opc)
        vm_addr == VmAddr(s.reg[insn.dst], insn.off)
        r == store(cfg, s.mem, FromI64(insn.imm), vm_addr, w)
    IN  IF r[1] = "Err" THEN throw_error(s, r[2])
        ELSE [s EXCEPT !.mem = r[2],
                       !.taint = clear_taint_vector(@, address_mapping(vm_addr, w))]

\* A register store that writes the bytes and leaves their taint.
StoreReg_keeps_taint(cfg, s, insn) ==
    LET w == MemWidth(insn.opc)
        vm_addr == VmAddr(s.reg[insn.dst], insn.off)
        r == store(cfg, s.mem, s.reg[insn.src], vm_addr, w)
    IN  IF r[1] = "Err" THEN throw_error(s, r[2]) ELSE [s EXCEPT !.mem = r[2]]

\* ST_*_REG
StoreReg(cfg, s, insn) ==
    LET w == MemWidth(insn.opc)
        vm_addr == VmAddr(s.reg[insn.dst], insn.off)
        r == store(cfg, s.mem, s.reg[insn.src], vm_addr, w)
    IN  IF r[1] = "Err" THEN throw_error(s, r[2])
        ELSE [s EXCEPT !.mem = r[2],
                       !.taint = taint_propagate_array(@, FromI64(insn.src), vm_addr, w)]

\* The low 32 bits of v as an i32.
ToI32(v) ==
    LET u == v[1] + 256 * v[2] + 65536 * v[3] + 16777216 * (v[4] % 128)
    IN  IF v[4] >= 128 THEN (u - 2147483647) - 1 ELSE u

I32_MIN == (0 - 2147483647) - 1
I32_MAX == 2147483647

\* Rust's a / b on i32 (truncating), for b # 0 and not (a = MIN and b = -1).
RECURSIVE TruncDiv(_, _)
TruncDiv(a, b) ==
    IF b > 0
    THEN IF a >= 0 THEN a \div b
         ELSE (a \div b) + (IF a % b = 0 THEN 0 ELSE 1)
    ELSE IF b = I32_MIN THEN (IF a = I32_MIN THEN 1 ELSE 0)
    ELSE 0 - TruncDiv(a, 0 - b)

\* The divisor of a division opcode as the arm casts it: insn.imm or reg[src]
\* as u32, i32, u64 or i64, widened to 64 bits.
Divisor(s, insn) ==
    LET opc == insn.opc
        x == IF DivIsImm(opc) THEN FromI64(insn.imm) ELSE s.reg[insn.src]
    IN  IF DivIs32(opc)
        THEN (IF opc \in PqrSignedDivOps THEN SignExt32(x) ELSE ZeroExt(x, 4))
        ELSE IF opc \in {"UDIV64_IMM", "UREM64_IMM"} THEN ZeroExt(x, 4)
        ELSE x

\* The dividend reg[dst] as the arm casts it.
Dividend(s, insn) ==
    LET d == s.reg[insn.dst]
    IN  IF DivIs32(insn.opc)
        THEN (IF insn.opc \in PqrSignedDivOps THEN SignExt32(d) ELSE ZeroExt(d, 4))
        ELSE d

\* An overflow check that looks at the dividend only.
divide_overflow_any_divisor(s, insn) ==
    Dividend(s, insn) = (IF DivIs32(insn.opc) THEN FromI64(I32_MIN) ELSE I64_MIN_BYTES)

\* throw_error!(DivideOverflow; ...): dst is MIN and the divisor is -1 at the
\* operand type.
divide_overflow(s, insn) ==
    /\ Divisor(s, insn) = MinusOne64
    /\ Dividend(s, insn) = (IF DivIs32(insn.opc) THEN FromI64(I32_MIN) ELSE I64_MIN_BYTES)

\* The arm divides without a zero-divisor check: the immediate forms.
div_unchecked_zero(insn) == DivIsImm(insn.opc)

\* The quotient or remainder the arm writes into reg[dst].
DivResult(s, insn) ==
    LET opc == insn.opc
        a == Dividend(s, insn)
        b == Divisor(s, insn)
    IN  IF opc \in PqrSignedDivOps
        THEN IF DivIs32(opc)
             THEN ZeroExt(IF DivIsRem(opc) THEN SRem64(a, b)
                          ELSE FromI64(TruncDiv(ToI32(a), ToI32(b))), 4)
             ELSE (IF DivIsRem(opc) THEN SRem64(a, b) ELSE SDiv64(a, b))
        ELSE (IF DivIsRem(opc) THEN URem64(a, b) ELSE UDiv64(a, b))

\* DIV*, MOD*, UDIV*, UREM*, SDIV*, SREM*.  Rust's / and % panic on a zero
\* divisor, which only the register forms check for beforehand.
Div(s, insn) ==
    IF Divisor(s, insn) = Zero64
    THEN (IF div_unchecked_zero(insn) THEN panic(s) ELSE throw_error(s, "DivideByZero"))
    ELSE IF insn.opc \in PqrSignedDivOps /\ divide_overflow(s, insn)
    THEN throw_error(s, "DivideOverflow")
    ELSE [s EXCEPT !.reg[insn.dst] = DivResult(s, insn)]

\* (reg as uN).to_be() as u64 on a little-endian host: the low w bytes in
\* reverse order, zero-extended.
to_be(v, w) == [i \in 1..8 |-> IF i <= w THEN v[w + 1 - i] ELSE 0]

\* A to_le that swaps the bytes as to_be does.
to_le_swapping(v, w) == to_be(v, w)

\* (reg as uN).to_le() as u64 on a little-endian host: the low w bytes as
\* they are, zero-extended.
to_le(v, w) == ZeroExt(v, w)

\* A register move that copies the value and leaves the taint where it was.
MovReg_keeps_taint(s, insn) ==
    [s EXCEPT !.reg[insn.dst] = s.reg[insn.src]]

\* MOV64_REG: the value and, byte for byte, the taint of src go to dst.
MovReg(s, insn) ==
    [s EXCEPT !.reg[insn.dst] = s.reg[insn.src],
              !.taint = taint_propagate_array(@, FromI64(insn.src), FromI64(insn.dst), 8)]

\* Bitwise exclusive or of two bytes.
RECURSIVE XorBits(_, _, _)
XorBits(x, y, n) ==
    IF n = 0 THEN 0
    ELSE 2 * XorBits(x \div 2, y \div 2, n - 1) + (IF x % 2 # y % 2 THEN 1 ELSE 0)

\* v as u32
AsU32(v) == ZeroExt(v, 4)

\* (a as i32).wrapping_add(b as i32), its 32 bits
wrapping_add32(a, b) == AsU32(wrapping_add(AsU32(a), AsU32(b)))

\* (a as i32).wrapping_sub(b as i32), its 32 bits
wrapping_sub32(a, b) == AsU32(wrapping_sub(AsU32(a), AsU32(b)))

\* Column k of the long multiplication of the low four bytes of a and b.
RECURSIVE MulColumn(_, _, _, _)
MulColumn(a, b, k, i) ==
    IF i > k THEN 0 ELSE a[i] * b[k + 1 - i] + MulColumn(a, b, k, i + 1)

RECURSIVE MulBytes(_, _, _, _)
MulBytes(a, b, k, carry) ==
    IF k > 4 THEN <<0, 0, 0, 0>>
    ELSE LET t == MulColumn(a, b, k, 1) + carry
         IN  <<t % 256>> \o MulBytes(a, b, k + 1, t \div 256)

\* (a as i32).wrapping_mul(b as i32), its 32 bits
wrapping_mul32(a, b) == MulBytes(a, b, 1, 0)

\* The shift distance of u32::wrapping_shl and wrapping_shr: rhs & 31.
ShiftDistance(x) == x[1] % 32

\* Byte i of the low four bytes of v, zero outside them.
Byte32(v, i) == IF i >= 1 /\ i <= 4 THEN v[i] ELSE 0

\* (v as u32).wrapping_shl(n), n < 32: whole bytes and then bits.
wrapping_shl32(v, n) ==
    LET q == n \div 8
        r == n % 8
    IN  [i \in 1..8 |->
           IF i > 4 THEN 0
           ELSE ((Byte32(v, i - q) * (2 ^ r)) % 256) + (Byte32(v, i - q - 1) \div (2 ^ (8 - r)))]

\* (v as u32).wrapping_shr(n), or (v as i32).wrapping_shr(n) as u32 with
\* fill = 255 for a negative v: bytes past the top are the fill.
wrapping_shr32(v, n, fill) ==
    LET q == n \div 8
        r == n % 8
        at(i) == IF i <= 4 THEN v[i] ELSE fill
    IN  [i \in 1..8 |->
           IF i > 4 THEN 0
           ELSE (at(i + q) \div (2 ^ r)) + ((at(i + q + 1) * (2 ^ (8 - r))) % 256)]

\* A sign_extension that zero-extends under every dialect.
sign_extension_zero(cfg, value) == AsU32(value)

\* Interpreter::sign_extension of an i32 given by its 32 bits.
sign_extension(cfg, value) ==
    IF cfg.sbpf_version.explicit_sign_extension_of_results
    THEN AsU32(value)
    ELSE SignExt32(value)

Alu32ImmOps ==
    {"ADD32_IMM", "SUB32_IMM", "MUL32_IMM", "OR32_IMM", "AND32_IMM", "XOR32_IMM",
     "LSH32_IMM", "RSH32_IMM", "ARSH32_IMM"}
Alu32RegOps ==
    {"ADD32_REG", "SUB32_REG", "MUL32_REG", "OR32_REG", "AND32_REG", "XOR32_REG",
     "LSH32_REG", "RSH32_REG", "ARSH32_REG", "MOV32_REG"}

\* The arms of the ALU32 class that Alu and Div do not cover.
Alu32Ops == Alu32ImmOps \cup Alu32RegOps \cup {"NEG32"}

\* The value an ALU32 arm writes into reg[dst], x being insn.imm or reg[src].
Alu32Value(cfg, opc, d, x) ==
    CASE opc \in {"ADD32_IMM", "ADD32_REG"} -> sign_extension(cfg, wrapping_add32(d, x))
      [] opc = "SUB32_IMM" ->
             IF cfg.sbpf_version.swap_sub_reg_imm_operands
             THEN sign_extension(cfg, wrapping_sub32(x, d))
             ELSE sign_extension(cfg, wrapping_sub32(d, x))
      [] opc = "SUB32_REG" -> sign_extension(cfg, wrapping_sub32(d, x))
      [] opc \in {"MUL32_IMM", "MUL32_REG"} -> SignExt32(wrapping_mul32(d, x))
      [] opc \in {"OR32_IMM", "OR32_REG"} -> AsU32(Or64(d, x))
      [] opc \in {"AND32_IMM", "AND32_REG"} -> AsU32(And64(d, x))
      [] opc \in {"XOR32_IMM", "XOR32_REG"} ->
             AsU32([i \in 1..8 |-> XorBits(d[i], x[i], 8)])
      [] opc \in {"LSH32_IMM", "LSH32_REG"} -> wrapping_shl32(d, ShiftDistance(x))
      [] opc \in {"RSH32_IMM", "RSH32_REG"} -> wrapping_shr32(d, ShiftDistance(x), 0)
      [] opc \in {"ARSH32_IMM", "ARSH32_REG"} ->
             wrapping_shr32(d, ShiftDistance(x), IF d[4] >= 128 THEN 255 ELSE 0)
      [] opc = "NEG32" -> AsU32(wrapping_neg(SignExt32(d)))
      [] opc = "MOV32_REG" ->
             IF cfg.sbpf_version.explicit_sign_extension_of_results
             THEN SignExt32(x) ELSE AsU32(x)

\* ADD32, SUB32, MUL32, OR32, AND32, XOR32, LSH32, RSH32, ARSH32, NEG32 and
\* MOV32_REG, which also moves the taint of src to dst.
Alu32(cfg, s, insn) ==
    LET x == IF insn.opc \in Alu32ImmOps THEN FromI64(insn.imm) ELSE s.reg[insn.src]
        s1 == [s EXCEPT !.reg[insn.dst] = Alu32Value(cfg, insn.opc, @, x)]
    IN  IF insn.opc = "MOV32_REG"
        THEN [s1 EXCEPT !.taint =
                 taint_propagate_array(@, FromI64(insn.src), FromI64(insn.dst), 8)]
        ELSE s1

\* Column k of the long multiplication of a and b, byte sequences of any length.
RECURSIVE WideColumn(_, _, _, _)
WideColumn(a, b, k, i) ==
    IF i > k THEN 0
    ELSE (IF i <= Len(a) /\ k + 1 - i <= Len(b) THEN a[i] * b[k + 1 - i] ELSE 0)
         + WideColumn(a, b, k, i + 1)

\* Bytes k..n of the product of a and b.
RECURSIVE WideProduct(_, _, _, _, _)
WideProduct(a, b, k, n, carry) ==
    IF k > n THEN <<>>
    ELSE LET t == WideColumn(a, b, k, 1) + carry
         IN  <<t % 256>> \o WideProduct(a, b, k + 1, n, t \div 256)

\* u64::wrapping_mul
wrapping_mul(a, b) == WideProduct(a, b, 1, 8, 0)

\* (a as u128).wrapping_mul(b as u128).wrapping_shr(64) as u64
uhmul64(a, b) == SubSeq(WideProduct(a, b, 1, 16, 0), 9, 16)

\* (a as i64 as i128).wrapping_mul(b as i64 as i128).wrapping_shr(64) as u64:
\* the unsigned high half, less b for a negative a and less a for a negative b.
shmul64(a, b) ==
    LET h == uhmul64(a, b)
        h1 == IF a[8] >= 128 THEN wrapping_sub(h, b) ELSE h
    IN  IF b[8] >= 128 THEN wrapping_sub(h1, a) ELSE h1

\* The shift distance of u64::wrapping_shl and wrapping_shr: rhs & 63.
ShiftDistance64(x) == x[1] % 64

\* u64::wrapping_shl(n), n < 64: whole bytes and then bits.
wrapping_shl64(v, n) ==
    LET q == n \div 8
        r == n % 8
        at(i) == IF i >= 1 THEN v[i] ELSE 0
    IN  [i \in 1..8 |-> ((at(i - q) * (2 ^ r)) % 256) + (at(i - q - 1) \div (2 ^ (8 - r)))]

\* u64::wrapping_shr(n), or i64::wrapping_shr(n) with fill = 255 for a
\* negative v: bytes past the top are the fill.
wrapping_shr64(v, n, fill) ==
    LET q == n \div 8
        r == n % 8
        at(i) == IF i <= 8 THEN v[i] ELSE fill
    IN  [i \in 1..8 |-> (at(i + q) \div (2 ^ r)) + ((at(i + q + 1) * (2 ^ (8 - r))) % 256)]

Alu64ImmOps ==
    {"SUB64_IMM", "OR64_IMM", "AND64_IMM", "XOR64_IMM", "LSH64_IMM", "RSH64_IMM",
     "ARSH64_IMM", "MUL64_IMM", "LMUL32_IMM", "LMUL64_IMM", "UHMUL64_IMM", "SHMUL64_IMM"}

Alu64RegOps ==
    {"ADD64_REG", "SUB64_REG", "OR64_REG", "AND64_REG", "XOR64_REG", "LSH64_REG",
     "RSH64_REG", "ARSH64_REG", "MUL64_REG", "LMUL32_REG", "LMUL64_REG", "UHMUL64_REG",
     "SHMUL64_REG"}

Alu64Ops == Alu64ImmOps \cup Alu64RegOps \cup {"NEG64"}

\* The value a 64-bit ALU arm writes into reg[dst], x being insn.imm as u64
\* or reg[src].
Alu64Value(cfg, opc, d, x) ==
    CASE opc = "ADD64_REG" -> wrapping_add(d, x)
      [] opc = "SUB64_IMM" ->
             IF cfg.sbpf_version.swap_sub_reg_imm_operands
             THEN wrapping_sub(x, d) ELSE wrapping_sub(d, x)
      [] opc = "SUB64_REG" -> wrapping_sub(d, x)
      [] opc \in {"OR64_IMM", "OR64_REG"} -> Or64(d, x)
      [] opc \in {"AND64_IMM", "AND64_REG"} -> And64(d, x)
      [] opc \in {"XOR64_IMM", "XOR64_REG"} -> [i \in 1..8 |-> XorBits(d[i], x[i], 8)]
      [] opc \in {"LSH64_IMM", "LSH64_REG"} -> wrapping_shl64(d, ShiftDistance64(x))
      [] opc \in {"RSH64_IMM", "RSH64_REG"} -> wrapping_shr64(d, ShiftDistance64(x), 0)
      [] opc \in {"ARSH64_IMM", "ARSH64_REG"} ->
             wrapping_shr64(d, ShiftDistance64(x), IF d[8] >= 128 THEN 255 ELSE 0)
      [] opc \in {"MUL64_IMM", "MUL64_REG", "LMUL64_IMM", "LMUL64_REG"} ->
             wrapping_mul(d, x)
      [] opc \in {"LMUL32_IMM", "LMUL32_REG"} -> AsU32(wrapping_mul(AsU32(d), AsU32(x)))
      [] opc = "UHMUL64_IMM" -> uhmul64(d, AsU32(x))
      [] opc = "UHMUL64_REG" -> uhmul64(d, x)
      [] opc \in {"SHMUL64_IMM", "SHMUL64_REG"} -> shmul64(d, x)
      [] opc = "NEG64" -> wrapping_neg(d)

\* A 64-bit ALU arm with a register operand that also moves the taint of
\* src to dst.
Alu64_propagates(cfg, s, insn) ==
    LET x == IF insn.opc \in Alu64ImmOps THEN FromI64(insn.imm) ELSE s.reg[insn.src]
        s1 == [s EXCEPT !.reg[insn.dst] = Alu64Value(cfg, insn.opc, @, x)]
    IN  IF insn.opc \in Alu64RegOps
        THEN [s1 EXCEPT !.taint =
                 taint_propagate_array(@, FromI64(insn.src), FromI64(insn.dst), 8)]
        ELSE s1

\* ADD64_REG, SUB64, OR64, AND64, XOR64, LSH64, RSH64, ARSH64, MUL64, NEG64
\* and the PQR multiplications: the arm assigns reg[dst] and calls nothing else.
Alu64(cfg, s, insn) ==
    LET x == IF insn.opc \in Alu64ImmOps THEN FromI64(insn.imm) ELSE s.reg[insn.src]
    IN  [s EXCEPT !.reg[insn.dst] = Alu64Value(cfg, insn.opc, @, x)]

\* MOV64_IMM, MOV32_IMM, MOV64_REG, ADD64_IMM, HOR64_IMM, LE, BE
Alu(cfg, s, insn) ==
    LET dst == insn.dst
        src == insn.src
        d == s.reg[dst]
    IN  CASE insn.opc = "MOV64_IMM" ->
                 [s EXCEPT !.reg[dst] = FromI64(insn.imm),
                           !.taint = clear_taint_vector(@, address_mapping(FromI64(dst), 8))]
          [] insn.opc = "MOV32_IMM" ->
                 [s EXCEPT !.reg[dst] = ZeroExt(FromI64(insn.imm), 4),
                           !.taint = clear_taint_vector(@, address_mapping(FromI64(dst), 8))]
          [] insn.opc = "MOV64_REG" -> MovReg(s, insn)
          [] insn.opc = "ADD64_IMM" ->
                 [s EXCEPT !.reg[dst] = wrapping_add(d, FromI64(insn.imm))]
          [] insn.opc = "HOR64_IMM" ->
                 [s EXCEPT !.reg[dst] = Or64(@, Shl32(FromI64(insn.imm)))]
          [] insn.opc = "LE" ->
                 IF insn.imm \in {16, 32, 64}
                 THEN [s EXCEPT !.reg[dst] = to_le(d, insn.imm \div 8)]
                 ELSE throw_error(s, "InvalidInstruction")
          [] insn.opc = "BE" ->
                 IF insn.imm \in {16, 32, 64}
                 THEN [s EXCEPT !.reg[dst] = to_be(d, insn.imm \div 8)]
                 ELSE throw_error(s, "InvalidInstruction")

AluOps == {"MOV64_IMM", "MOV32_IMM", "MOV64_REG", "ADD64_IMM", "HOR64_IMM", "LE", "BE"}

\* The predicate of a conditional jump on dst value d and operand x.
JumpTaken(opc, d, x) ==
    CASE opc \in {"JEQ_IMM", "JEQ_REG"} -> d = x
      [] opc \in {"JGT_IMM", "JGT_REG"} -> CmpU(d, x) = 1
      [] opc \in {"JGE_IMM", "JGE_REG"} -> CmpU(d, x) >= 0
      [] opc \in {"JLT_IMM", "JLT_REG"} -> CmpU(d, x) = -1
      [] opc \in {"JLE_IMM", "JLE_REG"} -> CmpU(d, x) <= 0
      [] opc \in {"JSET_IMM", "JSET_REG"} -> And64(d, x) # Zero64
      [] opc \in {"JNE_IMM", "JNE_REG"} -> d # x
      [] opc \in {"JSGT_IMM", "JSGT_REG"} -> CmpS(d, x) = 1
      [] opc \in {"JSGE_IMM", "JSGE_REG"} -> CmpS(d, x) >= 0
      [] opc \in {"JSLT_IMM", "JSLT_REG"} -> CmpS(d, x) = -1
      [] opc \in {"JSLE_IMM", "JSLE_REG"} -> CmpS(d, x) <= 0

\* JA
JumpAlways(s, insn) ==
    LET target == s.next_pc + insn.off
    IN  [trace_jump(s, s.pc, target) EXCEPT !.next_pc = target]

\* J*_IMM
JumpImm(s, insn) ==
    LET d == s.reg[insn.dst]
        x == FromI64(insn.imm)
        s1 == taint_imm_compare(s, insn.opc, x, insn.dst, d, 8)
        s2 == IF JumpTaken(insn.opc, d, x)
              THEN [s1 EXCEPT !.next_pc = @ + insn.off] ELSE s1
    IN  trace_jump(s2, s2.pc, s2.next_pc)

\* J*_REG
JumpReg(s, insn) ==
    LET d == s.reg[insn.dst]
        x == s.reg[insn.src]
        s1 == taint_reg_compare(s, insn.opc, insn.src, x, insn.dst, d, 8)
        s2 == IF JumpTaken(insn.opc, d, x)
              THEN [s1 EXCEPT !.next_pc = @ + insn.off] ELSE s1
    IN  trace_jump(s2, s2.pc, s2.next_pc)

\* target_pc.wrapping_sub(program_vm_addr) / INSN_SIZE, -1 for any value of
\* 2^31 or more (check_pc! rejects all of them).
CallRegTarget(v) ==
    LET d == wrapping_sub(v, program_vm_addr)
    IN  IF Fits31(d) THEN ToInt(d) \div INSN_SIZE ELSE -1

\* CALL_REG
CallReg(cfg, s, insn) ==
    LET from_pc == s.pc
        target_pc == IF cfg.sbpf_version.callx_uses_src_reg
                     THEN s.reg[insn.src] ELSE s.reg[insn.imm]
        s1 == push_frame(cfg, s)
    IN  IF s1.ret # "true" THEN s1
        ELSE LET s2 == check_pc(s1, CallRegTarget(target_pc))
             IN  IF s2.ret # "true" THEN s2
                 ELSE LET s3 == trace_jump(s2, from_pc, s2.next_pc)
                      IN  IF cfg.sbpf_version.static_syscalls
                             /\ s3.next_pc \notin FunctionKeys
                          THEN throw_error(s3, "UnsupportedInstruction")
                          ELSE s3

\* A CALL_IMM that asks the function registry before the syscall registry.
CallImm_function_first(cfg, s, insn) ==
    LET from_pc == s.pc
        key == calculate_call_imm_target_pc(cfg, s.pc, insn.imm)
    IN  IF key \in FunctionKeys
        THEN LET s1 == push_frame(cfg, s)
             IN  IF s1.ret # "true" THEN {s1}
                 ELSE LET s2 == check_pc(s1, function_lookup(key))
                      IN  IF s2.ret # "true" THEN {s2}
                          ELSE {trace_jump(s2, from_pc, s2.next_pc)}
        ELSE IF ~cfg.sbpf_version.static_syscalls /\ insn.imm \in SyscallKeys
        THEN dispatch_syscall(s)
        ELSE {throw_error(s, "UnsupportedInstruction")}

\* CALL_IMM
CallImm(cfg, s, insn) ==
    LET from_pc == s.pc
        key == calculate_call_imm_target_pc(cfg, s.pc, insn.imm)
    IN  IF ~cfg.sbpf_version.static_syscalls /\ insn.imm \in SyscallKeys
        THEN dispatch_syscall(s)
        ELSE IF key \in FunctionKeys
        THEN LET s1 == push_frame(cfg, s)
             IN  IF s1.ret # "true" THEN {s1}
                 ELSE LET s2 == check_pc(s1, function_lookup(key))
                      IN  IF s2.ret # "true" THEN {s2}
                          ELSE {trace_jump(s2, from_pc, s2.next_pc)}
        ELSE {throw_error(s, "UnsupportedInstruction")}

\* SYSCALL; an unregistered key trips a debug_assert! and is otherwise ignored.
Syscall(s, insn) ==
    IF insn.imm \in SyscallKeys THEN dispatch_syscall(s) ELSE {panic(s), s}

\* An exit check that leaves no room for the exit itself.
exit_exceeds_meter_inclusive(cfg, due, previous) ==
    cfg.enable_instruction_meter /\ due >= previous

\* RETURN / EXIT at call depth 0: the due count is past the quota.
exit_exceeds_meter(cfg, due, previous) ==
    cfg.enable_instruction_meter /\ due > previous

\* RETURN / EXIT
\* A dialect test that lets both exit opcodes through.
exit_illegal_never(cfg, opc) == FALSE

\* The opcode of the pair RETURN/EXIT that the dialect does not have.
exit_illegal(cfg, opc) ==
    \/ (opc = "EXIT" /\ cfg.sbpf_version.static_syscalls)
    \/ (opc = "RETURN" /\ ~cfg.sbpf_version.static_syscalls)

Return(cfg, s, insn) ==
    LET from_pc == s.pc
    IN  IF exit_illegal(cfg, insn.opc)
        THEN throw_error(s, "UnsupportedInstruction")
        ELSE IF s.call_depth = 0
        THEN IF exit_exceeds_meter(cfg, s.due_insn_count, previous_instruction_meter)
             THEN throw_error(s, "ExceededMaxInstructions")
             ELSE [s EXCEPT !.program_result = Ok(s.reg[0]), !.ret = "false"]
        ELSE IF s.call_depth > Len(s.call_frames)
        THEN panic([s EXCEPT !.call_depth = @ - 1, !.frame_idx = @ \cup {s.call_depth - 1}])
        ELSE LET frame == s.call_frames[s.call_depth]
                 s1 == [s EXCEPT
                          !.call_depth = @ - 1,
                          !.frame_idx = @ \cup {s.call_depth - 1},
                          !.reg = [r \in 0..10 |->
                              IF r = FRAME_PTR_REG THEN frame.frame_pointer
                              ELSE IF r >= FIRST_SCRATCH_REG /\ r < FIRST_SCRATCH_REG + SCRATCH_REGS
                              THEN frame.caller_saved_registers[r - FIRST_SCRATCH_REG + 1]
                              ELSE @[r]]]
                 s2 == check_pc(s1, frame.target_pc)
             IN  IF s2.ret # "true" THEN s2
                 ELSE trace_jump(s2, from_pc, s2.next_pc)

\* The match of step(): the outcomes of executing insn in state s.
Dispatch(cfg, s, insn) ==
    LET opc == insn.opc
    IN  IF ~ArmGuard(cfg.sbpf_version, opc)
        THEN {throw_error(s, "UnsupportedInstruction")}
        ELSE CASE opc \in Loads -> {Load(cfg, s, insn)}
               [] opc \in ImmStores -> {StoreImm(cfg, s, insn)}
               [] opc \in RegStores -> {StoreReg(cfg, s, insn)}
               [] opc \in AluOps -> {Alu(cfg, s, insn)}
               [] opc \in Alu32Ops -> {Alu32(cfg, s, insn)}
               [] opc \in Alu64Ops -> {Alu64(cfg, s, insn)}
               [] opc \in DivOps -> {Div(s, insn)}
               [] opc = "JA" -> {JumpAlways(s, insn)}
               [] opc \in JumpImmOps -> {JumpImm(s, insn)}
               [] opc \in JumpRegOps -> {JumpReg(s, insn)}
               [] opc = "CALL_REG" -> {CallReg(cfg, s, insn)}
               [] opc = "CALL_IMM" -> CallImm(cfg, s, insn)
               [] opc = "SYSCALL" -> Syscall(s, insn)
               [] opc \in {"RETURN", "EXIT"} -> {Return(cfg, s, insn)}

\* ------------------------------------------------------------- actions

\* EbpfVm::new with a fresh context object, before execute_program is called.
InitVm(cfgs, seeds) ==
    /\ phase = "new"
    /\ config \in cfgs
    /\ text = [i \in 0..(ProgLen - 1) |-> Unfetched]
    /\ vm_registers = NewRegisters(config)
    /\ vm_pc = 0
    /\ reg = vm_registers
    /\ pc = 0
    /\ call_depth = 0
    /\ call_frames = [i \in 1..config.max_call_depth |-> DefaultFrame]
    /\ previous_instruction_meter = 0
    /\ due_insn_count = 0
    /\ program_result = Ok(Zero64)
    /\ remaining \in 0..MaxQuota
    /\ initial_insn_count = 0
    /\ mem = <<>>
    /\ taint \in seeds
    /\ seeded = taint
    /\ instruction_record = <<>>
    /\ jump_log = <<>>
    /\ returned = <<>>
    /\ invocation = 0
    /\ last = NoStep
    /\ nsteps = 0
    /\ syscalled = FALSE
    /\ shadow = <<>>

\* parse_input_from_memory has not been called: no instrumenter is attached.
NoParse ==
    /\ parse_stage = "idle"
    /\ input_len = 0
    /\ input = <<>>
    /\ top_ptr = 0
    /\ mapping = <<>>
    /\ account_number = 0
    /\ idx = 0

\* A cell, or what a call returned, is <<k>>; the empty cell and the call that
\* has not returned are <<>>.
NoKey == <<>>

KeyThreads == 1..MaxThreads

\* RUNTIME_ENVIRONMENT_KEY as the process starts, and no thread asking for it.
NoKeyCalls ==
    /\ key_cell = NoKey
    /\ key_once = "incomplete"
    /\ key_stores = 0
    /\ thr = [t \in KeyThreads |-> [at |-> "idle", calls |-> 0, got |-> NoKey]]

\* A fresh VM without an instrumenter.
InitWith(cfgs, seeds) ==
    InitVm(cfgs, seeds) /\ NoParse /\ NoKeyCalls /\ twin = Untwinned

\* executable.get_entrypoint_instruction_offset()
entrypoint == 0

\* execute_program up to its step loop, Interpreter::new included: what it
\* sets, whatever the VM holds when it is called.
execute_program_entry ==
    /\ phase' = "running"
    /\ vm_registers' = [vm_registers EXCEPT ![1] = MM_INPUT_START]
    /\ vm_pc' = entrypoint
    /\ initial_insn_count' = remaining
    /\ previous_instruction_meter' = remaining
    /\ due_insn_count' = 0
    /\ program_result' = Ok(Zero64)
    /\ reg' = vm_registers'
    /\ pc' = vm_pc'
    /\ invocation' = invocation + 1
    /\ returned' = <<>>
    /\ last' = NoStep
    /\ nsteps' = 0
    /\ syscalled' = FALSE
    /\ UNCHANGED <<config, text, call_depth, call_frames, remaining, mem, taint,
                   instruction_record, jump_log, shadow, twin, seeded, parse_vars,
                   key_vars>>

\* The first execute_program on a VM fresh from EbpfVm::new.
ExecuteProgramBegin ==
    /\ phase = "new"
    /\ execute_program_entry

\* execute_program called again on a VM whose previous invocation returned,
\* with the same executable and context object.
ExecuteProgramAgain ==
    /\ phase = "done"
    /\ invocation < MaxInvocations
    /\ execute_program_entry

\* A budget check that counts the instruction about to run.
meter_exhausted_early(cfg, due, previous) ==
    cfg.enable_instruction_meter /\ due + 1 >= previous

\* A budget check that lets one instruction too many through.
meter_exhausted_late(cfg, due, previous) ==
    cfg.enable_instruction_meter /\ due > previous

\* A budget check that ignores enable_instruction_meter.
meter_exhausted_unconditional(cfg, due, previous) == due >= previous

\* The budget check at the head of step().
meter_exhausted(cfg, due, previous) ==
    cfg.enable_instruction_meter /\ due >= previous

\* step() up to the fetch: the budget check, the due count, the overrun check.
\* pc * INSN_SIZE overflows usize for a pc that wrapped below zero: the build
\* decides between a panic and the wrapped product, which is past the text.
StepEntryOn(s) ==
    IF meter_exhausted(config, s.due_insn_count, previous_instruction_meter)
    THEN {throw_error(s, "ExceededMaxInstructions")}
    ELSE LET s1 == [s EXCEPT !.due_insn_count = @ + 1]
         IN  IF s.pc < 0
             THEN {panic(s1), throw_error(s1, "ExecutionOverrun")}
             ELSE IF s.pc * INSN_SIZE >= ProgLen * INSN_SIZE
             THEN {throw_error(s1, "ExecutionOverrun")}
             ELSE {[s1 EXCEPT !.executed = TRUE]}

StepEntry == StepEntryOn(Cur)

\* The end of step(): reg[11] = next_pc when the step returns true.
Advance(s) == IF s.ret = "true" THEN [s EXCEPT !.pc = s.next_pc] ELSE s

\* Interpreter::step: the outcomes of one invocation that fetches insn.
step_on(s, insn) ==
    UNION { IF e.executed THEN { Advance(r) : r \in Dispatch(config, e, insn) } ELSE {e}
            : e \in StepEntryOn(s) }

step(insn) == step_on(Cur, insn)

\* What a run shows of a step's outcome apart from the taint engine's state:
\* registers, pcs, frames, meter, result, memory, jump log, how step() ended.
Observable(r) ==
    [reg |-> r.reg, pc |-> r.pc, vm_registers |-> r.vm_registers, vm_pc |-> r.vm_pc,
     call_depth |-> r.call_depth, call_frames |-> r.call_frames,
     due_insn_count |-> r.due_insn_count, program_result |-> r.program_result,
     mem |-> r.mem, jump_log |-> r.jump_log, syscalled |-> r.syscalled,
     ret |-> r.ret, fault |-> r.fault]

\* The second run takes the step this transition took, on the same
\* instruction, from its own taint state: it agrees when one of its outcomes
\* shows what this run's outcome shows.
TwinStep(insn, r) ==
    IF ~twin.live \/ ~twin.agrees THEN twin
    ELSE LET s2 == [Cur EXCEPT !.taint = twin.taint,
                               !.instruction_record = twin.instruction_record]
             same == { r2 \in step_on(s2, insn) : Observable(r2) = Observable(r) }
         IN  IF same = {} THEN [twin EXCEPT !.agrees = FALSE]
             ELSE LET r2 == CHOOSE x \in same : TRUE
                  IN  [twin EXCEPT !.taint = r2.taint,
                                   !.instruction_record = r2.instruction_record]

\* The registers a frame push saves, and where the push happened.
Snapshot ==
    [regs |-> [r \in FIRST_SCRATCH_REG..FRAME_PTR_REG |-> reg[r]],
     pc |-> pc, call_depth |-> call_depth]

\* One iteration of `while interpreter.step() {}` on a program over alphabet.
Step(alphabet) ==
    /\ phase = "running"
    /\ nsteps < MaxSteps
    /\ LET fetches == \E e \in StepEntry : e.executed
       IN  \E insn \in (IF ~fetches THEN {Unfetched}
                        ELSE IF text[pc] = Unfetched THEN alphabet ELSE {text[pc]}) :
           \E r \in step(insn) :
             /\ text' = IF fetches THEN [text EXCEPT ![pc] = insn] ELSE text
             /\ phase' = CASE r.ret = "true" -> "running"
                           [] r.ret = "false" -> "halted"
                           [] r.ret = "panic" -> "panic"
             /\ reg' = r.reg
             /\ pc' = r.pc
             /\ vm_registers' = r.vm_registers
             /\ vm_pc' = r.vm_pc
             /\ call_depth' = r.call_depth
             /\ call_frames' = r.call_frames
             /\ due_insn_count' = r.due_insn_count
             /\ program_result' = r.program_result
             /\ mem' = r.mem
             /\ taint' = r.taint
             /\ instruction_record' = r.instruction_record
             /\ jump_log' = r.jump_log
             /\ syscalled' = r.syscalled
             /\ last' = [pc |-> pc, opc |-> insn.opc, ret |-> r.ret, fault |-> r.fault,
                         executed |-> r.executed, frame_idx |-> r.frame_idx,
                         call_depth |-> call_depth, reg |-> reg, taint |-> taint]
             /\ nsteps' = nsteps + 1
             /\ twin' = TwinStep(insn, r)
             /\ shadow' = IF r.ret = "true" /\ r.call_depth = call_depth + 1
                          THEN Append(shadow, Snapshot)
                          ELSE IF r.call_depth = call_depth - 1 /\ shadow # <<>>
                          THEN SubSeq(shadow, 1, Len(shadow) - 1)
                          ELSE shadow
    /\ UNCHANGED <<config, previous_instruction_meter, remaining, initial_insn_count,
                   returned, invocation, seeded, parse_vars, key_vars>>

\* ContextObject::consume of the test context object: saturating.
consume(rem, amount) == IF amount >= rem THEN 0 ELSE rem - amount

\* A count that leaves out the instruction that ended the run.
saturating_sub_one_more(a, b) == IF b + 1 >= a THEN 0 ELSE a - b - 1

\* u64::saturating_sub
saturating_sub(a, b) == IF b >= a THEN 0 ELSE a - b

\* execute_program after its step loop ended with step() returning false.
ExecuteProgramEnd ==
    /\ phase = "halted"
    /\ phase' = "done"
    /\ remaining' = IF config.enable_instruction_meter
                    THEN consume(remaining, due_insn_count) ELSE remaining
    /\ returned' = <<IF config.enable_instruction_meter
                     THEN saturating_sub(initial_insn_count, remaining') ELSE 0,
                     program_result>>
    /\ program_result' = Ok(Zero64)
    /\ UNCHANGED <<config, text, reg, pc, vm_registers, vm_pc, call_depth, call_frames,
                   previous_instruction_meter, due_insn_count, initial_insn_count, mem,
                   taint, instruction_record, jump_log, invocation, last, nsteps,
                   syscalled, shadow, twin, seeded, parse_vars, key_vars>>

\* ------------------------------------------------------- input parser

\* The realloc area that follows the data of an account.
ReallocBytes == 10240

\* extract_input_from_memory(start, end), offsets taken from MM_INPUT_START:
\* the number of bytes it returns, the loop breaking at the first load the
\* region does not cover.
extract_input_from_memory(start, end) ==
    IF start >= input_len THEN 0
    ELSE IF end <= input_len THEN end - start
    ELSE input_len - start

\* The parser at offset ptr of the region with the labels inserted so far and
\* the bytes converted so far.
ParserAt(ptr, m, bytes) == [ptr |-> ptr, mapping |-> m, input |-> bytes, panic |-> FALSE]

\* A field whose labels reach one byte less far than the pointer moves on.
insert_run_short(st, n, attr) ==
    [st EXCEPT !.mapping = IF n <= 1 THEN @ ELSE Append(@, [from |-> st.ptr, len |-> n - 1,
                                                          attr |-> attr]),
               !.ptr = @ + n]

\* for i in 0..n { mapping.insert(ptr + i, attr(i)) }; ptr += n: the n offsets
\* from ptr on are labelled attr, byte i of the field as attr(i), and the
\* pointer moves past them.
insert_run(st, n, attr) ==
    [st EXCEPT !.mapping = IF n = 0 THEN @ ELSE Append(@, [from |-> st.ptr, len |-> n,
                                                         attr |-> attr]),
               !.ptr = @ + n]

\* convert_bytes_to_num::<T>(extract_input_from_memory(ptr, ptr + size)) reading
\* the little-endian value: the slice value[..size] panics when the region
\* ends before ptr + size.
read_num(st, size, value) ==
    IF extract_input_from_memory(st.ptr, st.ptr + size) < size
    THEN [st EXCEPT !.panic = TRUE]
    ELSE [st EXCEPT !.input =
             [o \in DOMAIN @ \cup (st.ptr..(st.ptr + size - 1)) |->
                 IF o >= st.ptr /\ o < st.ptr + size THEN FromI64(value)[o - st.ptr + 1]
                 ELSE @[o]]]

\* A tag test that takes 0xff for the mark of a duplicate.
is_duplicate_when_marker(account_duplicate) == account_duplicate = 255

\* account_duplicate != 0xff: the account repeats an earlier one and has no
\* body of its own.
is_duplicate(account_duplicate) == account_duplicate # 255

\* The labels of one account.
AccountAttr(i, info) == <<"Account", i, info>>

\* The body of an account from is_signer to the rent epoch.
account_body(st, i, data_len) ==
    LET s1 == insert_run(st, 1, AccountAttr(i, "IsSigner"))
        s2 == insert_run(s1, 1, AccountAttr(i, "IsWritable"))
        s3 == insert_run(s2, 1, AccountAttr(i, "IsExecutable"))
        s4 == insert_run(s3, 4, AccountAttr(i, "Padding"))
        s5 == insert_run(s4, 32, AccountAttr(i, "Pubkey"))
        s6 == insert_run(s5, 32, AccountAttr(i, "OwnerPubkey"))
        s7 == insert_run(s6, 8, AccountAttr(i, "Lamports"))
        s8 == read_num(s7, 8, data_len)
        s9 == insert_run(s8, 8, AccountAttr(i, "DataLen"))
        s10 == insert_run(s9, data_len, AccountAttr(i, "Data"))
        s11 == insert_run(s10, ReallocBytes, AccountAttr(i, "ReallocData"))
        s12 == IF s11.ptr % 8 # 0
               THEN insert_run(s11, 8 - (s11.ptr % 8), AccountAttr(i, "AlignData"))
               ELSE s11
    IN  IF s8.panic THEN s8
        ELSE insert_run(s12, 8, AccountAttr(i, "RentEpoch"))

\* EbpfVm::parse_account on a region whose next byte is account_duplicate and
\* whose data length, where the account has a body, is data_len.
parse_account(st, i, account_duplicate, data_len) ==
    LET s0 == read_num(st, 1, account_duplicate)
        s1 == insert_run(s0, 1, AccountAttr(i, "Duplicate"))
    IN  IF s0.panic THEN s0
        ELSE IF is_duplicate(account_duplicate)
        THEN insert_run(s1, 7, AccountAttr(i, "DuplicatePadding"))
        ELSE account_body(s1, i, data_len)

\* The values the parser finds in the bytes it converts.
DupTags == {0, 1, 255}
DataLens == {0, 3, 8}
InstructionLens == {0, 5}

\* Lengths of the input region: empty, cut inside the account count, long
\* enough for accounts without a body, for one with a body, for all.
InputLens == {0, 5, 70, 10400, 40000}

\* The parser's hold on the state.
ParserState == ParserAt(top_ptr, mapping, input)

Commit(st, stage) ==
    /\ parse_stage' = IF st.panic THEN "panic" ELSE stage
    /\ top_ptr' = st.ptr
    /\ mapping' = st.mapping
    /\ input' = st.input

\* parse_input_from_memory up to its account loop.
ParseBegin ==
    /\ parse_stage = "start"
    /\ \E n \in 0..MaxAccounts :
         LET s0 == read_num(ParserAt(0, <<>>, input), 8, n)
             s1 == insert_run(s0, 8, "NumberAccount")
         IN  /\ Commit(IF s0.panic THEN s0 ELSE s1, "accounts")
             /\ account_number' = IF s0.panic THEN account_number ELSE n
    /\ idx' = 0
    /\ UNCHANGED <<vm_vars, key_vars, input_len>>

\* One iteration of `for idx in 0..account_number`: a call of parse_account.
ParseAccount ==
    /\ parse_stage = "accounts"
    /\ idx < account_number
    /\ \E account_duplicate \in DupTags, data_len \in DataLens :
         Commit(parse_account(ParserState, idx, account_duplicate, data_len), "accounts")
    /\ idx' = idx + 1
    /\ UNCHANGED <<vm_vars, key_vars, input_len, account_number>>

\* parse_input_from_memory after its account loop: the instruction bytes and
\* the program id.
ParseEnd ==
    /\ parse_stage = "accounts"
    /\ idx = account_number
    /\ \E instruction_number \in InstructionLens :
         LET s0 == read_num(ParserState, 8, instruction_number)
             s1 == insert_run(s0, 8, "NumberInstruction")
             s2 == insert_run(s1, instruction_number, "Instruction")
             s3 == insert_run(s2, 32, "ProgramId")
         IN  Commit(IF s0.panic THEN s0 ELSE s3, "done")
    /\ UNCHANGED <<vm_vars, key_vars, input_len, account_number, idx>>

\* ------------------------------------------- runtime environment key

PROGRAM_ENVIRONMENT_KEY_SHIFT == 4

\* i32 >> n, the arithmetic shift.
shr_i32(value, n) == value \div (2 ^ n)

\* thread_rng().gen::<i32>(), a few of its values.
RandomI32 == {I32_MIN, -17, -1, 0, 16, I32_MAX}

\* Once::call_once_force runs the closure of every caller that finds the
\* Once not complete.
may_run_initializer_racy(once) == once # "complete"

\* Once::call_once_force runs the closure of the one caller that moves the
\* Once from incomplete to running.
may_run_initializer(once) == once = "incomplete"

\* get_runtime_environment_key is called: OnceLock::get_or_init returns the
\* stored value when there is one, and takes the slow path otherwise.
KeyCall(t) ==
    /\ thr[t].at = "idle"
    /\ thr[t].calls < MaxKeyCalls
    /\ thr' = [thr EXCEPT ![t] =
                 IF key_once = "complete"
                 THEN [at |-> "idle", calls |-> @.calls + 1, got |-> key_cell]
                 ELSE [@ EXCEPT !.at = "initialize", !.calls = @ + 1]]
    /\ UNCHANGED <<vm_vars, parse_vars, key_cell, key_once, key_stores>>

\* OnceLock::initialize: the caller claims the Once, or finds it complete
\* and reads the cell; while another caller's closure runs it waits.
KeyClaim(t) ==
    /\ thr[t].at = "initialize"
    /\ \/ /\ may_run_initializer(key_once)
          /\ key_once' = "running"
          /\ thr' = [thr EXCEPT ![t].at = "closure"]
       \/ /\ key_once = "complete"
          /\ key_once' = key_once
          /\ thr' = [thr EXCEPT ![t].at = "idle", ![t].got = key_cell]
    /\ UNCHANGED <<vm_vars, parse_vars, key_cell, key_stores>>

\* The closure draws the random i32 and shifts it; its value is stored, the
\* Once completes and the caller reads the cell.
KeyStore(t) ==
    /\ thr[t].at = "closure"
    /\ \E r \in RandomI32 :
         LET k == shr_i32(r, PROGRAM_ENVIRONMENT_KEY_SHIFT) IN
           /\ key_cell' = <<k>>
           /\ thr' = [thr EXCEPT ![t].at = "idle", ![t].got = <<k>>]
    /\ key_once' = "complete"
    /\ key_stores' = key_stores + 1
    /\ UNCHANGED <<vm_vars, parse_vars>>

\* ------------------------------------------------------ specifications

Insn(opc, dst, src, off, imm) ==
    [opc |-> opc, dst |-> dst, src |-> src, off |-> off, imm |-> imm]

\* Control flow, calls, syscalls and the faults of step(), in every dialect.
FlowInsns ==
    { Insn("MOV64_IMM", 6, 0, 0, I32_MIN),
      Insn("MOV64_IMM", 10, 0, 0, 5),
      Insn("LD_DW_REG", 2, 1, 8, 0),
      Insn("LD_8B_REG", 2, 1, 8, 0),
      Insn("LD_B_REG", 3, 0, 0, 0),
      Insn("DIV64_REG", 3, 0, 0, 0),
      Insn("SDIV32_IMM", 6, 0, 0, -1),
      Insn("BE", 3, 0, 0, 7),
      Insn("INVALID", 0, 0, 0, 0),
      Insn("JA", 0, 0, -1, 0),
      Insn("JA", 0, 0, 5, 0),
      Insn("JA", 0, 0, -3, 0),
      Insn("JEQ_IMM", 0, 0, 1, 0),
      Insn("JNE_REG", 6, 0, -2, 0),
      Insn("CALL_IMM", 0, 0, 0, -1),
      Insn("CALL_IMM", 0, 0, 0, 0),
      Insn("CALL_IMM", 0, 0, 0, 1),
      Insn("CALL_IMM", 0, 0, 0, 2),
      Insn("CALL_IMM", 0, 0, 0, 7),
      Insn("CALL_REG", 0, 2, 0, 2),
      Insn("SYSCALL", 0, 0, 0, 7),
      Insn("SYSCALL", 0, 0, 0, 8),
      Insn("RETURN", 0, 0, 0, 0),
      Insn("EXIT", 0, 0, 0, 0) }

\* Fresh VMs with the default frame gaps; a quota matters only to the meter.
FlowConfigs ==
    { c \in Configs : c.enable_stack_frame_gaps }

Init ==
    /\ InitWith(FlowConfigs, {<<>>})
    /\ config.enable_instruction_meter \/ remaining = 1

Next ==
    \/ ExecuteProgramBegin
    \/ Step(FlowInsns)
    \/ ExecuteProgramEnd

Spec == Init /\ [][Next]_vars

\* Loads of every width in both encodings: from the seeded input bytes, from
\* clean ones, across the end of the input region, and into the base register.
LoadInsns ==
    { Insn(opc, 3, 1, 0, 0) : opc \in Loads }
    \cup { Insn(opc, 3, 1, 2, 0) : opc \in {"LD_B_REG", "LD_H_REG", "LD_1B_REG", "LD_2B_REG"} }
    \cup { Insn("LD_DW_REG", 3, 1, 12, 0), Insn("LD_8B_REG", 3, 1, 12, 0),
           Insn("LD_B_REG", 1, 1, 1, 0), Insn("LD_1B_REG", 1, 1, 1, 0),
           Insn("EXIT", 0, 0, 0, 0) }

\* The taint states a fuzzer may seed: any of the leading input bytes tainted,
\* byte i with origin i + 1.
TaintSeeds ==
    { [a \in { MemoryByte(AddrPlus(MM_INPUT_START, i)) : i \in S } |->
          ToInt(wrapping_sub(a[2], MM_INPUT_START)) + 1] :
      S \in SUBSET (0..(SeededBytes - 1)) }

\* The seed that taints exactly the input bytes S.
SeedOf(S) ==
    [a \in { MemoryByte(AddrPlus(MM_INPUT_START, i)) : i \in S } |->
        ToInt(wrapping_sub(a[2], MM_INPUT_START)) + 1]

LoadConfigs ==
    { c \in Configs : /\ c.enable_stack_frame_gaps
                      /\ ~c.enable_instruction_meter
                      /\ c.max_call_depth = 1
                      /\ ~c.sbpf_version.static_syscalls }

InitLoad ==
    /\ InitWith(LoadConfigs, TaintSeeds)
    /\ remaining = 0

NextLoad ==
    \/ ExecuteProgramBegin
    \/ Step(LoadInsns)
    \/ ExecuteProgramEnd

SpecLoad == InitLoad /\ [][NextLoad]_vars

\* Stores of every width in both encodings, from an immediate and from r3,
\* into the input region (onto tainted and onto clean bytes, and across its
\* end) and into the stack, after loads that taint r3.
StoreAll ==
    { Insn(opc, 3, 1, 0, 0) : opc \in {"LD_W_REG", "LD_4B_REG"} }
    \cup { Insn(opc, 1, 0, 0, -1) : opc \in ImmStores }
    \cup { Insn(opc, 1, 0, 12, -1) : opc \in {"ST_DW_IMM", "ST_8B_IMM"} }
    \cup { Insn(opc, 1, 3, 0, 0) : opc \in RegStores }
    \cup { Insn(opc, 1, 3, 4, 0) : opc \in {"ST_W_REG", "ST_4B_REG"} }
    \cup { Insn(opc, 1, 3, 12, 0) : opc \in {"ST_DW_REG", "ST_8B_REG"} }
    \cup { Insn(opc, 10, 3, -4, 0) : opc \in {"ST_W_REG", "ST_4B_REG"} }

\* The instructions of StoreAll in the encoding of the dialect, and one store
\* of the other encoding.
StoreInsns ==
    { i \in StoreAll : \/ ArmGuard(config.sbpf_version, i.opc)
                       \/ (i.opc \in {"ST_B_IMM", "ST_1B_IMM"} /\ i.off = 0) }

\* Input bytes 0 and 2 tainted, or all of 0 to 7, or none.
SampleSeeds == { SeedOf({}), SeedOf({0, 2}), SeedOf(0..7) }

StoreConfigs ==
    { c \in Configs : /\ c.enable_stack_frame_gaps
                      /\ ~c.enable_instruction_meter
                      /\ c.max_call_depth = 1
                      /\ c.sbpf_version \in {V0, V2} }

InitStore ==
    /\ InitWith(StoreConfigs, SampleSeeds)
    /\ remaining = 0

NextStore ==
    \/ ExecuteProgramBegin
    \/ Step(StoreInsns)
    \/ ExecuteProgramEnd

SpecStore == InitStore /\ [][NextStore]_vars

\* The value LD_W_REG r3, [r1+0] loads from the input: 0x44332211.
InputWord == 1144201745

\* Conditional jumps on registers loaded from the seeded input: word 0 loads
\* r3 (8 or 4 bytes), word 1 may load r4 (2 bytes from input byte 2), and from
\* word 1 on every conditional jump, forward by 0 or 1, compares r3 with r4,
\* with itself, or with an immediate that equals the loaded word or does not.
CompareInsns ==
    IF pc = 0
    THEN { Insn("LD_DW_REG", 3, 1, 0, 0), Insn("LD_W_REG", 3, 1, 0, 0) }
    ELSE (IF pc = 1 THEN { Insn("LD_H_REG", 4, 1, 2, 0) } ELSE {})
         \cup { Insn(opc, 3, 4, 1, 0) : opc \in JumpRegOps }
         \cup { Insn("JEQ_REG", 4, 3, 0, 0), Insn("JNE_REG", 3, 3, 1, 0) }
         \cup { Insn(opc, 3, 0, 1, imm) : opc \in JumpImmOps, imm \in {InputWord, -2} }

CompareConfigs ==
    { c \in Configs : /\ c.enable_stack_frame_gaps
                      /\ ~c.enable_instruction_meter
                      /\ c.max_call_depth = 1
                      /\ c.sbpf_version = V0 }

InitCompare ==
    /\ InitWith(CompareConfigs, SampleSeeds)
    /\ remaining = 0

NextCompare ==
    \/ ExecuteProgramBegin
    \/ Step(CompareInsns)
    \/ ExecuteProgramEnd

SpecCompare == InitCompare /\ [][NextCompare]_vars

\* Divisions over r6 and r7, both zero at entry.  Word 0 sets the dividend r6
\* (HOR64_IMM makes INT64_MIN of it); word 1 may set the divisor r7; from word
\* 1 on every division and remainder the dialect enables divides r6 by r7 or
\* by an immediate.  The divisors are 0, -1 and 3; the unsigned immediate
\* forms leave out -1, whose quotients lie outside the domain of UDivMod.
DivAll ==
    IF pc = 0
    THEN { Insn("MOV64_IMM", 6, 0, 0, v) : v \in {7, -7, I32_MIN} }
         \cup { Insn("HOR64_IMM", 6, 0, 0, I32_MIN) }
    ELSE (IF pc = 1 THEN { Insn("MOV64_IMM", 7, 0, 0, v) : v \in {-1, 3} } ELSE {})
         \cup { Insn(opc, 6, 7, 0, 0) : opc \in { o \in DivOps : ~DivIsImm(o) } }
         \cup { Insn(opc, 6, 0, 0, v) : opc \in { o \in DivOps : DivIsImm(o) }, v \in {0, 3} }
         \cup { Insn(opc, 6, 0, 0, -1) : opc \in { o \in PqrSignedDivOps : DivIsImm(o) } }

DivInsns == { i \in DivAll : ArmGuard(config.sbpf_version, i.opc) }

DivConfigs ==
    { c \in Configs : /\ c.enable_stack_frame_gaps
                      /\ ~c.enable_instruction_meter
                      /\ c.max_call_depth = 1
                      /\ c.sbpf_version \in {V0, V2} }

InitDiv ==
    /\ InitWith(DivConfigs, {SeedOf({})})
    /\ remaining = 0

NextDiv ==
    \/ ExecuteProgramBegin
    \/ Step(DivInsns)
    \/ ExecuteProgramEnd

SpecDiv == InitDiv /\ [][NextDiv]_vars

\* Register moves after a tainting load: word 0 loads r3 from the seeded
\* input, and from word 1 on MOV64_REG moves among r1 (the input pointer,
\* clean), r3 (loaded) and r4 (zero, clean), a register onto itself included.
MoveInsns ==
    IF pc = 0
    THEN { Insn("LD_DW_REG", 3, 1, 0, 0), Insn("LD_W_REG", 3, 1, 0, 0) }
    ELSE { Insn("MOV64_REG", d, r, 0, 0) : d \in {1, 3, 4}, r \in {1, 3, 4} }

InitMove ==
    /\ InitWith(CompareConfigs, SampleSeeds)
    /\ remaining = 0

NextMove ==
    \/ ExecuteProgramBegin
    \/ Step(MoveInsns)
    \/ ExecuteProgramEnd

SpecMove == InitMove /\ [][NextMove]_vars

\* Endianness conversions after a tainting load: word 0 loads r1 or r3 from
\* the seeded input r1 points to, and from word 1 on LE and BE of width 16,
\* 32 or 64 convert r1 or r3.
EndianInsns ==
    IF pc = 0
    THEN { Insn("LD_DW_REG", 1, 1, 0, 0), Insn("LD_DW_REG", 3, 1, 0, 0),
           Insn("LD_W_REG", 3, 1, 4, 0) }
    ELSE { Insn(opc, r, 0, 0, w) : opc \in {"LE", "BE"}, r \in {1, 3}, w \in {16, 32, 64} }

InitEndian ==
    /\ InitWith(CompareConfigs, SampleSeeds)
    /\ remaining = 0

NextEndian ==
    \/ ExecuteProgramBegin
    \/ Step(EndianInsns)
    \/ ExecuteProgramEnd

SpecEndian == InitEndian /\ [][NextEndian]_vars

\* parse_input_from_memory, which execute_program calls before it builds the
\* interpreter when an instrumenter is attached, over input regions of several
\* lengths whose bytes are chosen as the parser converts them.
InitParse ==
    /\ InitVm(CompareConfigs, {<<>>})
    /\ twin = Untwinned
    /\ remaining = 0
    /\ parse_stage = "start"
    /\ input_len \in InputLens
    /\ input = <<>>
    /\ top_ptr = 0
    /\ mapping = <<>>
    /\ account_number = 0
    /\ idx = 0
    /\ NoKeyCalls

NextParse ==
    \/ ParseBegin
    \/ ParseAccount
    \/ ParseEnd

SpecParse == InitParse /\ [][NextParse]_vars

\* Metered runs of straight-line code that ends in a fault or an exit: the
\* division of r2 by a zeroed r1 among them, under quotas that do and do not
\* suffice.
CountInsns ==
    { Insn("MOV64_IMM", 1, 0, 0, 0),
      Insn("DIV64_REG", 2, 1, 0, 0),
      Insn("JA", 0, 0, 0, 0),
      Insn("INVALID", 0, 0, 0, 0),
      Insn("RETURN", 0, 0, 0, 0),
      Insn("EXIT", 0, 0, 0, 0) }

CountConfigs ==
    { c \in Configs : /\ c.enable_stack_frame_gaps
                      /\ c.enable_instruction_meter
                      /\ c.max_call_depth = 1
                      /\ c.sbpf_version \in {V0, V3} }

InitCount == InitWith(CountConfigs, {<<>>})

NextCount ==
    \/ ExecuteProgramBegin
    \/ Step(CountInsns)
    \/ ExecuteProgramEnd

SpecCount == InitCount /\ [][NextCount]_vars

\* The ALU32 class: word 0 sets r6, and from word 1 on every 32-bit ALU
\* opcode works on r6 with an immediate, or on r7 (zero at first) with r6;
\* the register forms of DIV32 and MOD32 in words 1 and 2, whose operand
\* pairs UDivMod covers.
Alu32RegNames ==
    Alu32RegOps \cup (IF pc <= 2 THEN {"DIV32_REG", "MOD32_REG"} ELSE {})
Alu32ImmNames ==
    Alu32ImmOps \cup {"DIV32_IMM", "MOD32_IMM", "MOV32_IMM"}

Alu32Insns ==
    IF pc = 0
    THEN { Insn("MOV64_IMM", 6, 0, 0, v) : v \in {I32_MIN, I32_MAX, -3, 5} }
    ELSE { Insn(opc, 6, 0, 0, v) : opc \in Alu32ImmNames, v \in {3, -1} }
         \cup { Insn(opc, 7, 6, 0, 0) : opc \in Alu32RegNames }
         \cup { Insn("NEG32", 6, 0, 0, 0) }

Alu32Configs ==
    { c \in Configs : /\ c.enable_stack_frame_gaps
                      /\ ~c.enable_instruction_meter
                      /\ c.max_call_depth = 1
                      /\ c.sbpf_version \in {V0, V2} }

InitAlu32 ==
    /\ InitWith(Alu32Configs, {<<>>})
    /\ remaining = 0

NextAlu32 ==
    \/ ExecuteProgramBegin
    \/ Step(Alu32Insns)
    \/ ExecuteProgramEnd

SpecAlu32 == InitAlu32 /\ [][NextAlu32]_vars

\* Threads of one process calling get_runtime_environment_key, each several
\* times, in every interleaving; no program runs.
InitKey ==
    /\ InitVm(CompareConfigs, {<<>>})
    /\ twin = Untwinned
    /\ remaining = 0
    /\ NoParse
    /\ NoKeyCalls

NextKey ==
    \/ \E t \in KeyThreads : KeyCall(t)
    \/ \E t \in KeyThreads : KeyClaim(t)
    \/ \E t \in KeyThreads : KeyStore(t)

SpecKey == InitKey /\ [][NextKey]_vars

\* Opcodes the dialect turns off: every guarded opcode and the opcode without
\* a handler, on r3 and the input pointer r1, of which a program keeps those
\* whose guard is false under its dialect, and the loads, which taint r3 when
\* their guard is true.
GuardInsns ==
    { i \in { Insn(opc, 3, 1, 0, 1) : opc \in GuardedOps \cup NoHandlerOps } :
        ~ArmGuard(config.sbpf_version, i.opc) \/ i.opc \in Loads }

GuardConfigs ==
    { c \in Configs : /\ c.enable_stack_frame_gaps
                      /\ ~c.enable_instruction_meter
                      /\ c.max_call_depth = 1 }

InitGuard ==
    /\ InitWith(GuardConfigs, {SeedOf({}), SeedOf({0, 2})})
    /\ remaining = 0

NextGuard ==
    \/ ExecuteProgramBegin
    \/ Step(GuardInsns)
    \/ ExecuteProgramEnd

SpecGuard == InitGuard /\ [][NextGuard]_vars

\* Calls, exits and a fault that can strike inside a call, for VMs that run
\* execute_program more than once.
ReuseInsns ==
    { Insn("MOV64_IMM", 6, 0, 0, I32_MIN),
      Insn("DIV64_REG", 3, 0, 0, 0),
      Insn("CALL_IMM", 0, 0, 0, 0),
      Insn("CALL_IMM", 0, 0, 0, 1),
      Insn("RETURN", 0, 0, 0, 0),
      Insn("EXIT", 0, 0, 0, 0) }

ReuseConfigs ==
    { c \in Configs : c.enable_stack_frame_gaps /\ c.sbpf_version \in {V0, V3} }

InitReuse ==
    /\ InitWith(ReuseConfigs, {<<>>})
    /\ config.enable_instruction_meter \/ remaining = 1

NextReuse ==
    \/ ExecuteProgramBegin
    \/ ExecuteProgramAgain
    \/ Step(ReuseInsns)
    \/ ExecuteProgramEnd

SpecReuse == InitReuse /\ [][NextReuse]_vars

\* ---------------------------------------------------------------- claims

\* The faults step() raises through throw_error!.
Faults ==
    {"ExecutionOverrun", "CallOutsideTextSegment", "CallDepthExceeded", "DivideByZero",
     "DivideOverflow", "InvalidInstruction", "UnsupportedInstruction",
     "ExceededMaxInstructions", "AccessViolation"}

\* This transition is one invocation of step().
IsStep == nsteps' = nsteps + 1

\* C1: whenever the latest step() ended in a fault, it returned false, the
\* program result is Err(that fault) (and is what execute_program returns),
\* vm.registers[11] is the pc of the faulting instruction, and the step loop
\* has ended: no step follows it.
C1_FaultHalts ==
    last.fault \in Faults =>
        /\ last.ret = "false"
        /\ phase \in {"halted", "done"}
        /\ vm_pc = last.pc
        /\ (phase = "halted" => program_result = Err(last.fault))
        /\ (phase = "done" => returned[2] = Err(last.fault))

\* A return to the word past the text faulted at pc 1 and the run was reported.
C1_Witness ==
    /\ last.fault = "CallOutsideTextSegment"
    /\ last.pc = 1
    /\ last.opc \in {"RETURN", "EXIT"}
    /\ phase = "done"
    /\ returned[2] = Err("CallOutsideTextSegment")

\* C2: a step whose builtin reports an error returns false, leaves register 0
\* as it was, leaves the error in the program result and commits the current
\* pc to vm.registers[11].
C2_SyscallErrorCommitsPc ==
    [][(IsStep /\ last'.fault = "SyscallError") =>
          /\ last'.ret = "false"
          /\ reg'[0] = reg[0]
          /\ program_result' = Err("SyscallError")
          /\ vm_pc' = pc]_vars

\* C3: with the meter on, quota Q and no syscall, the step loop reaches its
\* (Q+1)-th step only to fault ExceededMaxInstructions there before any
\* instruction is fetched, that fault happens at no other step, and
\* execute_program then reports Q executed instructions.
C3_MeterExhaustion ==
    (config.enable_instruction_meter /\ ~syscalled /\ phase # "new") =>
        /\ (nsteps = initial_insn_count + 1 =>
               /\ last.fault = "ExceededMaxInstructions"
               /\ ~last.executed
               /\ last.ret = "false")
        /\ ((last.fault = "ExceededMaxInstructions" /\ ~last.executed) =>
               nsteps = initial_insn_count + 1)
        /\ ((phase = "done" /\ nsteps = initial_insn_count + 1) =>
               returned = <<initial_insn_count, Err("ExceededMaxInstructions")>>)

\* A quota of 2 or more was used up and the run was reported.
C3_Witness ==
    /\ config.enable_instruction_meter
    /\ ~syscalled
    /\ phase = "done"
    /\ initial_insn_count >= 2
    /\ nsteps = initial_insn_count + 1
    /\ returned[1] = initial_insn_count

\* The exit opcode that is legal under the dialect.
LegalExit(opc) ==
    \/ opc = "EXIT" /\ ~config.sbpf_version.static_syscalls
    \/ opc = "RETURN" /\ config.sbpf_version.static_syscalls

\* C4: with the meter on and no syscall, a top-level RETURN/EXIT that is the
\* N-th executed instruction of a run whose quota is exactly N ends the run
\* with Ok(reg[0]) and an executed count of N.
C4_InclusiveBudget ==
    (/\ config.enable_instruction_meter
     /\ ~syscalled
     /\ last.executed
     /\ LegalExit(last.opc)
     /\ last.call_depth = 0
     /\ nsteps = initial_insn_count) =>
        /\ last.fault = "none"
        /\ last.ret = "false"
        /\ (phase = "halted" => program_result = Ok(reg[0]))
        /\ (phase = "done" => returned = <<initial_insn_count, Ok(reg[0])>>)

\* A top-level exit was the last instruction a quota of 2 or more allowed.
C4_Witness ==
    /\ config.enable_instruction_meter
    /\ ~syscalled
    /\ last.executed
    /\ LegalExit(last.opc)
    /\ last.call_depth = 0
    /\ initial_insn_count >= 2
    /\ nsteps = initial_insn_count
    /\ phase = "done"
    /\ returned[1] = initial_insn_count

\* C5: with the meter on, quota Q and no builtin invoked, step() is invoked at
\* most Q+1 times, and after the (Q+1)-th invocation the step loop has ended.
C5_TerminatesWithinQuota ==
    (config.enable_instruction_meter /\ ~syscalled /\ phase # "new") =>
        /\ nsteps <= initial_insn_count + 1
        /\ (nsteps = initial_insn_count + 1 => phase # "running")

\* The one-instruction loop JA -1 was stopped by a quota of 2 or more.
C5_Witness ==
    /\ config.enable_instruction_meter
    /\ ~syscalled
    /\ text[0] = Insn("JA", 0, 0, -1, 0)
    /\ initial_insn_count >= 2
    /\ nsteps = initial_insn_count + 1
    /\ phase = "halted"

\* C6: in every state of a run with max_call_depth >= 1, call_depth is at most
\* max_call_depth and every index a push or pop uses into call_frames is below
\* max_call_depth.
C6_FrameStackInBounds ==
    config.max_call_depth >= 1 =>
        /\ call_depth <= config.max_call_depth
        /\ \A i \in last.frame_idx : 0 <= i /\ i < config.max_call_depth

\* This transition is a RETURN/EXIT that pops the frame of its call.
IsReturn ==
    /\ IsStep
    /\ last'.opc \in {"RETURN", "EXIT"}
    /\ last'.ret # "panic"
    /\ call_depth' = call_depth - 1

\* After the pop, r6..r9 and r10 are what they were at the call and so is the depth.
CallerRestored ==
    /\ \A r \in FIRST_SCRATCH_REG..FRAME_PTR_REG : reg'[r] = shadow[Len(shadow)].regs[r]
    /\ call_depth' = shadow[Len(shadow)].call_depth

\* C7 as stated: every RETURN/EXIT that matches a successful call leaves r6..r9,
\* r10 and the call depth as they were before the call, and pc = the call's pc + 1.
C7_ReturnRestoresCaller ==
    [][IsReturn => (CallerRestored /\ pc' = shadow[Len(shadow)].pc + 1)]_vars

\* C7 amended: every RETURN/EXIT that matches a successful call leaves r6..r9,
\* r10 and the call depth as they were before the call; pc = the call's pc + 1
\* when the return step returns true, and otherwise the call was the last word
\* of the text and the return faulted CallOutsideTextSegment.
C7_ReturnRestoresCallerInText ==
    [][IsReturn =>
          /\ CallerRestored
          /\ (last'.ret = "true" => pc' = shadow[Len(shadow)].pc + 1)
          /\ (last'.ret = "false" =>
                 /\ last'.fault = "CallOutsideTextSegment"
                 /\ shadow[Len(shadow)].pc = ProgLen - 1)]_vars

\* The callee at word 1 overwrote r6 and its EXIT gave r6 back to the caller.
C7_Witness ==
    /\ text[0].opc = "CALL_IMM"
    /\ text[1] = Insn("MOV64_IMM", 6, 0, 0, I32_MIN)
    /\ last.opc = "EXIT"
    /\ last.ret = "true"
    /\ last.call_depth = 1
    /\ nsteps = 3
    /\ reg[6] = Zero64
    /\ pc = 1

\* C8: a step that executes a control-flow opcode without faulting appends
\* exactly one record to the jump log; a step of any other opcode appends none.
C8_OneJumpRecordPerControlFlowStep ==
    [][(IsStep /\ last'.executed /\ last'.fault = "none" /\ last'.ret # "panic") =>
          Len(jump_log') = Len(jump_log)
                           + (IF last'.opc \in ControlFlowOps THEN 1 ELSE 0)]_vars

C10_LoadCopiesTaint ==
    [][(IsStep /\ last'.opc \in Loads /\ last'.ret = "true") =>
          LET insn == text'[pc]
              vm_addr == VmAddr(reg[insn.src], insn.off)
          IN  \A i \in 0..(MemWidth(insn.opc) - 1) :
                  TaintOf(taint', RegisterByte(insn.dst, i)) =
                      TaintOf(taint, MemoryByte(AddrPlus(vm_addr, i)))]_vars

\* After a 4-byte load of the input into r3, a 2-byte load from input byte 2
\* replaced the taint of r3's low bytes: byte 0 went from origin 1 to origin 3,
\* byte 1 took the Clean of input byte 3, byte 2 kept what the first load left.
C10_Witness ==
    /\ text[0].opc \in {"LD_W_REG", "LD_4B_REG"} /\ text[0].off = 0
    /\ text[1].opc \in {"LD_H_REG", "LD_2B_REG"} /\ text[1].off = 2
    /\ last.ret = "true"
    /\ nsteps = 2
    /\ TaintOf(taint, MemoryByte(MM_INPUT_START)) = Tainted(1)
    /\ TaintOf(taint, RegisterByte(3, 0)) = Tainted(3)
    /\ TaintOf(taint, RegisterByte(3, 1)) = Clean
    /\ TaintOf(taint, RegisterByte(3, 2)) = Tainted(3)

\* The memory bytes a store of this step wrote, for the instruction at pc.
StoreTargets ==
    LET insn == text'[pc]
        vm_addr == VmAddr(reg[insn.dst], insn.off)
    IN  { AddrPlus(vm_addr, i) : i \in 0..(MemWidth(insn.opc) - 1) }

\* C11: after an immediate store of width W to vm_addr that returned true, the
\* W memory bytes from vm_addr are Clean whatever they were before, and the
\* taint of every other address is what it was.
C11_ImmStoreClearsTaint ==
    [][(IsStep /\ last'.opc \in ImmStores /\ last'.ret = "true") =>
          /\ \A a \in StoreTargets : TaintOf(taint', MemoryByte(a)) = Clean
          /\ \A u \in (DOMAIN taint \cup DOMAIN taint') \ {MemoryByte(a) : a \in StoreTargets} :
                 TaintOf(taint', u) = TaintOf(taint, u)]_vars

\* A one-byte immediate store onto the tainted input byte 0 cleaned it and left
\* the taint of input byte 2 alone.
C11_Witness ==
    /\ last.opc \in {"ST_B_IMM", "ST_1B_IMM"}
    /\ last.ret = "true"
    /\ TaintOf(last.taint, MemoryByte(MM_INPUT_START)) = Tainted(1)
    /\ TaintOf(taint, MemoryByte(MM_INPUT_START)) = Clean
    /\ TaintOf(taint, MemoryByte(AddrPlus(MM_INPUT_START, 2))) = Tainted(3)
    /\ ByteAt(config, mem, MM_INPUT_START) = 255

\* C12: a register store of width W to vm_addr that returned true has written
\* the W low bytes of src to vm_addr.. and, in the same step, given memory byte
\* vm_addr + i the taint register byte (src, i) had before the step; a register
\* store that faulted changed neither the memory nor the taint.
C12_RegStoreMovesTaintWithBytes ==
    [][(IsStep /\ last'.opc \in RegStores /\ last'.executed
              /\ last'.fault # "UnsupportedInstruction") =>
          LET insn == text'[pc]
              vm_addr == VmAddr(reg[insn.dst], insn.off)
          IN  IF last'.ret = "true"
              THEN \A i \in 0..(MemWidth(insn.opc) - 1) :
                     /\ ByteAt(config, mem', AddrPlus(vm_addr, i)) = reg[insn.src][i + 1]
                     /\ TaintOf(taint', MemoryByte(AddrPlus(vm_addr, i))) =
                            TaintOf(taint, RegisterByte(insn.src, i))
              ELSE /\ last'.fault = "AccessViolation"
                   /\ mem' = mem
                   /\ taint' = taint]_vars

\* After r3 was loaded from input bytes 0..3 (bytes 0 and 2 tainted), a 4-byte
\* store of r3 to input bytes 4..7 gave them the bytes and the taint of r3.
C12_Witness ==
    /\ text[0].opc \in {"LD_W_REG", "LD_4B_REG"}
    /\ last.opc \in {"ST_W_REG", "ST_4B_REG"}
    /\ last.ret = "true"
    /\ nsteps = 2
    /\ TaintOf(last.taint, MemoryByte(AddrPlus(MM_INPUT_START, 4))) = Clean
    /\ TaintOf(taint, MemoryByte(AddrPlus(MM_INPUT_START, 4))) = Tainted(1)
    /\ TaintOf(taint, MemoryByte(AddrPlus(MM_INPUT_START, 5))) = Clean
    /\ TaintOf(taint, MemoryByte(AddrPlus(MM_INPUT_START, 6))) = Tainted(3)
    /\ ByteAt(config, mem, AddrPlus(MM_INPUT_START, 4)) = 17

\* The records this step appended to the comparison log.
AppendedRecords ==
    { instruction_record'[n] : n \in (Len(instruction_record) + 1)..Len(instruction_record') }

\* This step kept the log it found and appended n records to it.
AppendedCount(n) ==
    /\ Len(instruction_record') = Len(instruction_record) + n
    /\ SubSeq(instruction_record', 1, Len(instruction_record)) = instruction_record

\* What a comparison record says of byte i of register r before the step.
RegisterRecord(r, i) ==
    [addr |-> RegisterByte(r, i), value |-> reg[r][i + 1],
     taint |-> TaintOf(taint, RegisterByte(r, i))]

\* C13: a conditional J*_REG step appends one record for each byte position i
\* in 0..7 at which byte i of src or of dst is tainted, and no other; the
\* record carries the opcode and, for both operands, the address of byte i,
\* the i-th little-endian byte of the register and its taint; with both
\* operands Clean nothing is appended.
C13_RegCompareRecords ==
    [][(IsStep /\ last'.opc \in JumpRegOps /\ last'.executed) =>
          LET insn == text'[pc]
              positions == { i \in 0..7 :
                               \/ is_tainted(TaintOf(taint, RegisterByte(insn.src, i)))
                               \/ is_tainted(TaintOf(taint, RegisterByte(insn.dst, i))) }
          IN  /\ AppendedCount(Cardinality(positions))
              /\ AppendedRecords =
                     { [opcode |-> insn.opc, src |-> RegisterRecord(insn.src, i),
                        dst |-> RegisterRecord(insn.dst, i)] : i \in positions }]_vars

\* With input bytes 0 and 2 tainted, JEQ_REG r4, r3 after both loads appended
\* two records: byte 0 (both operands tainted) and byte 2 (only src tainted).
C13_Witness ==
    /\ text[0].opc = "LD_DW_REG"
    /\ text[1].opc = "LD_H_REG"
    /\ last.opc = "JEQ_REG"
    /\ nsteps = 3
    /\ Len(instruction_record) = 2
    /\ instruction_record[1].dst.taint = Tainted(3)
    /\ instruction_record[1].src.taint = Tainted(1)
    /\ instruction_record[2].dst.taint = Clean
    /\ instruction_record[2].src = [addr |-> RegisterByte(3, 2), value |-> 51,
                                    taint |-> Tainted(3)]

\* C14: a conditional J*_IMM step appends one record for each byte position i
\* in 0..7 at which byte i of dst is tainted, and no other; its source is the
\* sentinel Memory{0}, Clean, with the i-th little-endian byte of the
\* sign-extended immediate; this holds whether or not the branch is taken.
C14_ImmCompareRecords ==
    [][(IsStep /\ last'.opc \in JumpImmOps /\ last'.executed) =>
          LET insn == text'[pc]
              positions == { i \in 0..7 : is_tainted(TaintOf(taint, RegisterByte(insn.dst, i))) }
          IN  /\ AppendedCount(Cardinality(positions))
              /\ AppendedRecords =
                     { [opcode |-> insn.opc,
                        src |-> [addr |-> MemoryByte(Zero64), value |-> FromI64(insn.imm)[i + 1],
                                 taint |-> Clean],
                        dst |-> RegisterRecord(insn.dst, i)] : i \in positions }]_vars

\* With input bytes 0 to 7 tainted, a JEQ_IMM on the loaded r3 that was not
\* taken (the immediate is -2) appended 8 records.
C14_Witness ==
    /\ text[0].opc = "LD_DW_REG"
    /\ last.opc = "JEQ_IMM"
    /\ nsteps = 2
    /\ pc = 2
    /\ Len(instruction_record) = 8
    /\ instruction_record[8].src = [addr |-> MemoryByte(Zero64), value |-> 255, taint |-> Clean]
    /\ instruction_record[8].dst = [addr |-> RegisterByte(3, 7), value |-> 136,
                                    taint |-> Tainted(8)]

\* The divisor and the dividend of the division this step executed, as the
\* arm read them from the registers before the step.
StepDivisor == Divisor([reg |-> reg], text'[pc])
StepDividend == Dividend([reg |-> reg], text'[pc])

\* C15: every division or modulo opcode enabled under the dialect, register
\* or immediate form, executed with a zero divisor, faults DivideByZero and
\* leaves every register unchanged.
C15_ZeroDivisorFaults ==
    [][(IsStep /\ last'.opc \in DivOps /\ last'.executed
              /\ ArmGuard(config.sbpf_version, last'.opc)
              /\ StepDivisor = Zero64) =>
          (last'.fault = "DivideByZero" /\ reg' = reg)]_vars

\* k times v for a small k, by wrapping additions.
TimesSmall(v, k) ==
    LET n == IF k < 0 THEN 0 - k ELSE k
        p == CASE n = 0 -> Zero64
               [] n = 1 -> v
               [] n = 2 -> wrapping_add(v, v)
               [] n = 3 -> wrapping_add(v, wrapping_add(v, v))
    IN  IF k < 0 THEN wrapping_neg(p) ELSE p

\* q and r are the quotient and the remainder of a by the small integer b, rounded
\* towards zero: a = q * b + r, |r| < |b|, and r is zero or has the sign of a.
TruncatingDivision(a, b, q, r) ==
    /\ a = wrapping_add(TimesSmall(q, b), r)
    /\ \E k \in (1 - (IF b < 0 THEN 0 - b ELSE b))..((IF b < 0 THEN 0 - b ELSE b) - 1) :
         /\ r = FromI64(k)
         /\ k # 0 => ((k < 0) <=> IsNeg64(a))

\* C16: under a PQR dialect SDIV32, SDIV64, SREM32 and SREM64, register and
\* immediate forms, fault DivideOverflow and keep dst when dst is INT_MIN and
\* the divisor is -1 at the operand width; for every other pair with a
\* nonzero divisor the step does not fault and dst receives the truncating
\* signed quotient or remainder (the 32-bit result in the low 32 bits).
C16_SignedOverflowOnly ==
    [][(IsStep /\ last'.opc \in PqrSignedDivOps /\ last'.executed
              /\ config.sbpf_version.enable_pqr
              /\ StepDivisor # Zero64) =>
          LET insn == text'[pc]
              w32 == DivIs32(insn.opc)
              a == StepDividend
              b == StepDivisor
              min == IF w32 THEN FromI64(I32_MIN) ELSE I64_MIN_BYTES
              out == IF w32 THEN SignExt32(reg'[insn.dst]) ELSE reg'[insn.dst]
          IN  IF a = min /\ b = MinusOne64
              THEN /\ last'.fault = "DivideOverflow"
                   /\ last'.ret = "false"
                   /\ reg' = reg
              ELSE /\ last'.fault = "none"
                   /\ last'.ret = "true"
                   /\ w32 => reg'[insn.dst] = ZeroExt(reg'[insn.dst], 4)
                   /\ \A r \in 0..10 : r # insn.dst => reg'[r] = reg[r]
                   /\ IF DivIsRem(insn.opc)
                      THEN TruncatingDivision(a, ToI32(b), SDiv64(a, b), out)
                      ELSE \E k \in -2..2 : TruncatingDivision(a, ToI32(b), out, FromI64(k))]_vars

\* SDIV64_REG of r6 = INT64_MIN by r7 = -1 ended the run with DivideOverflow
\* and r6 still INT64_MIN.
C16_Witness ==
    /\ last.opc = "SDIV64_REG"
    /\ last.fault = "DivideOverflow"
    /\ reg[6] = I64_MIN_BYTES
    /\ reg[7] = MinusOne64
    /\ program_result = Err("DivideOverflow")

\* This step executes MOV64_REG back, dst right after the previous step
\* executed MOV64_REG dst, src.
IsMoveBack ==
    /\ IsStep
    /\ last.opc = "MOV64_REG" /\ last.executed
    /\ last'.opc = "MOV64_REG" /\ last'.executed
    /\ text'[pc].src = text[last.pc].dst

\* C17: MOV64_REG dst, src followed by MOV64_REG back, dst leaves in back the
\* value src had before the two moves and, for every byte i in 0..7, in
\* register byte (back, i) the taint register byte (src, i) had before them,
\* whichever the three registers are.
C17_MoveRoundTrip ==
    [][IsMoveBack =>
          LET src == text[last.pc].src
              back == text'[pc].dst
          IN  /\ reg'[back] = last.reg[src]
              /\ \A i \in 0..7 :
                     TaintOf(taint', RegisterByte(back, i)) =
                         TaintOf(last.taint, RegisterByte(src, i))]_vars

\* MOV64_REG r4, r3; MOV64_REG r1, r4 after an 8-byte load of r3 from input
\* whose bytes 0 and 2 are tainted: r1 holds the loaded value, its bytes 0 and
\* 2 are tainted and its byte 1 is not.
C17_Witness ==
    /\ nsteps = 3
    /\ text[1] = Insn("MOV64_REG", 4, 3, 0, 0)
    /\ text[2] = Insn("MOV64_REG", 1, 4, 0, 0)
    /\ last.pc = 2
    /\ reg[1] = <<17, 34, 51, 68, 85, 102, 119, 136>>
    /\ TaintOf(taint, RegisterByte(1, 0)) = Tainted(1)
    /\ TaintOf(taint, RegisterByte(1, 1)) = Clean
    /\ TaintOf(taint, RegisterByte(1, 2)) = Tainted(3)

\* This step executes BE w on the register the previous step executed LE w
\* on, and the register carried taint, as only a load from tainted memory
\* gives it.
IsLeThenBe ==
    /\ IsStep
    /\ last.opc = "LE" /\ last.executed /\ last.ret = "true"
    /\ last'.opc = "BE" /\ last'.executed
    /\ text'[pc].dst = text[last.pc].dst
    /\ text'[pc].imm = text[last.pc].imm
    /\ \E i \in 0..7 : is_tainted(TaintOf(last.taint, RegisterByte(text'[pc].dst, i)))

\* The taint of the register r is byte for byte what it was before the
\* previous step.
TaintKeptOverTwoSteps(r) ==
    \A i \in 0..7 : TaintOf(taint', RegisterByte(r, i)) = TaintOf(last.taint, RegisterByte(r, i))

\* C18 as stated: LE w followed by BE w on a register loaded from tainted
\* memory returns the low w bits of the register to what they were, and the
\* taint of its bytes is what it was before the two steps.
C18_LeBeRestoresValue ==
    [][IsLeThenBe =>
          LET r == text'[pc].dst
              w == text'[pc].imm \div 8
          IN  /\ \A i \in 1..w : reg'[r][i] = last.reg[r][i]
              /\ TaintKeptOverTwoSteps(r)]_vars

\* C18 amended: LE w followed by BE w on a register loaded from tainted
\* memory leaves the low w bits of the register with their bytes in reverse
\* order and the bits above them zero, and the taint of its bytes is what it
\* was before the two steps.
C18_LeBeReversesBytes ==
    [][IsLeThenBe =>
          LET r == text'[pc].dst
              w == text'[pc].imm \div 8
          IN  /\ \A i \in 1..w : reg'[r][i] = last.reg[r][w + 1 - i]
              /\ \A i \in (w + 1)..8 : reg'[r][i] = 0
              /\ TaintKeptOverTwoSteps(r)]_vars

\* LE 32 r3; BE 32 r3 after an 8-byte load of r3 from input whose bytes 0 and
\* 2 are tainted: r3 holds 0x11223344 and the taint of its bytes has not moved.
C18_Witness ==
    /\ nsteps = 3
    /\ text[0] = Insn("LD_DW_REG", 3, 1, 0, 0)
    /\ text[1] = Insn("LE", 3, 0, 0, 32)
    /\ text[2] = Insn("BE", 3, 0, 0, 32)
    /\ last.pc = 2
    /\ reg[3] = <<68, 51, 34, 17, 0, 0, 0, 0>>
    /\ TaintOf(taint, RegisterByte(3, 0)) = Tainted(1)
    /\ TaintOf(taint, RegisterByte(3, 1)) = Clean
    /\ TaintOf(taint, RegisterByte(3, 2)) = Tainted(3)

\* C19: after LD_DW_REG of a register from 8 memory bytes followed by BE 64
\* on it, the register holds the 8 bytes in reverse order and its taint is
\* permuted the same way: register byte i has the taint of memory byte 7 - i.
C19_BeLoadReversesValueAndTaint ==
    [][(/\ IsStep
        /\ last.opc = "LD_DW_REG" /\ last.executed /\ last.ret = "true"
        /\ last'.opc = "BE" /\ last'.executed
        /\ text'[pc].imm = 64
        /\ text'[pc].dst = text[last.pc].dst) =>
          LET ld == text[last.pc]
              r == ld.dst
              vm_addr == VmAddr(last.reg[ld.src], ld.off)
          IN  \A i \in 0..7 :
                /\ reg'[r][i + 1] = ByteAt(config, mem, AddrPlus(vm_addr, 7 - i))
                /\ TaintOf(taint', RegisterByte(r, i)) =
                       TaintOf(last.taint, MemoryByte(AddrPlus(vm_addr, 7 - i)))]_vars

\* This step executes a RETURN or an EXIT.
IsExitStep == IsStep /\ last'.opc \in {"RETURN", "EXIT"} /\ last'.executed

\* The step faulted UnsupportedInstruction.
ExitUnsupported == last'.fault = "UnsupportedInstruction" /\ last'.ret = "false"

\* The step ended the run with Ok(v), v the value of r0 at the step.
ExitEndsRun ==
    /\ last'.ret = "false"
    /\ last'.fault = "none"
    /\ program_result' = Ok(reg[0])
    /\ call_depth' = 0

\* C20 as stated: of RETURN and EXIT exactly one is legal per dialect (RETURN
\* under static syscalls, EXIT otherwise) and the other faults
\* UnsupportedInstruction; the legal one at call depth 0 ends the run, step()
\* returning false with the result Ok(reg[0]); at call depth > 0 it pops one
\* frame and the run continues.
C20_ExitEndsOrPops ==
    [][IsExitStep =>
          IF ~LegalExit(last'.opc) THEN ExitUnsupported
          ELSE IF call_depth = 0 THEN ExitEndsRun
          ELSE call_depth' = call_depth - 1 /\ last'.ret = "true"]_vars

\* C20 amended: as stated, except that at call depth > 0 the run continues
\* (at the word after the call) only when that word lies within the text;
\* when the call was the last word of the text the frame is popped and the
\* step faults CallOutsideTextSegment.
C20_ExitEndsOrPopsInText ==
    [][IsExitStep =>
          IF ~LegalExit(last'.opc) THEN ExitUnsupported
          ELSE IF call_depth = 0 THEN ExitEndsRun
          ELSE /\ call_depth' = call_depth - 1
               /\ IF shadow[Len(shadow)].pc + 1 < ProgLen
                  THEN last'.ret = "true" /\ pc' = shadow[Len(shadow)].pc + 1
                  ELSE last'.ret = "false" /\ last'.fault = "CallOutsideTextSegment"]_vars

\* Under static syscalls a RETURN at call depth 0 ended the run with the 9 a
\* syscall had left in r0.
C20_Witness ==
    /\ config.sbpf_version.static_syscalls
    /\ last.opc = "RETURN"
    /\ last.executed
    /\ last.call_depth = 0
    /\ last.ret = "false"
    /\ phase = "halted"
    /\ reg[0] = FromI64(9)
    /\ program_result = Ok(FromI64(9))

\* This step is a call of parse_account that returned.
IsParseAccount ==
    /\ parse_stage = "accounts"
    /\ parse_stage' = "accounts"
    /\ idx' = idx + 1

\* The runs of labels this step inserted, as <<field, length>>.
InsertedFields ==
    [n \in 1..(Len(mapping') - Len(mapping)) |->
        <<mapping'[Len(mapping) + n].attr, mapping'[Len(mapping) + n].len>>]

\* The fields of the sequence f that have at least one byte.
RECURSIVE NonEmptyFields(_)
NonEmptyFields(f) ==
    IF f = <<>> THEN <<>>
    ELSE (IF Head(f)[2] = 0 THEN <<>> ELSE <<Head(f)>>) \o NonEmptyFields(Tail(f))

\* The step consumed the tag and 7 bytes of padding, and nothing else.
ConsumedReference ==
    /\ top_ptr' = top_ptr + 8
    /\ InsertedFields = << <<AccountAttr(idx, "Duplicate"), 1>>,
                           <<AccountAttr(idx, "DuplicatePadding"), 7>> >>

\* The little-endian u64 the parser read at offset o (the lengths read are
\* below 2^16).
NumAt(o) == input'[o] + 256 * input'[o + 1]

\* The step consumed a full account body: the tag, is_signer, is_writable,
\* is_executable, 4 bytes of padding, the pubkey, the owner, the lamports,
\* data_len, data_len bytes of data, the realloc area, the pad to a multiple
\* of 8 and the rent epoch.
ConsumedBody ==
    LET data_len == NumAt(top_ptr + 80)
        unpadded == top_ptr + 88 + data_len + ReallocBytes
        pad == (8 - (unpadded % 8)) % 8
    IN  /\ top_ptr + 80 \in DOMAIN input'
        /\ top_ptr' = unpadded + pad + 8
        /\ InsertedFields = NonEmptyFields(
               << <<AccountAttr(idx, "Duplicate"), 1>>,
                  <<AccountAttr(idx, "IsSigner"), 1>>,
                  <<AccountAttr(idx, "IsWritable"), 1>>,
                  <<AccountAttr(idx, "IsExecutable"), 1>>,
                  <<AccountAttr(idx, "Padding"), 4>>,
                  <<AccountAttr(idx, "Pubkey"), 32>>,
                  <<AccountAttr(idx, "OwnerPubkey"), 32>>,
                  <<AccountAttr(idx, "Lamports"), 8>>,
                  <<AccountAttr(idx, "DataLen"), 8>>,
                  <<AccountAttr(idx, "Data"), data_len>>,
                  <<AccountAttr(idx, "ReallocData"), ReallocBytes>>,
                  <<AccountAttr(idx, "AlignData"), pad>>,
                  <<AccountAttr(idx, "RentEpoch"), 8>> >>)

\* C21 as stated: for each account, a duplicate tag of 0xFF makes the parser
\* consume only the tag and 7 bytes of padding, and any other tag makes it
\* consume the full account body.
C21_MarkerIsReference ==
    [][IsParseAccount =>
          IF input'[top_ptr] = 255 THEN ConsumedReference ELSE ConsumedBody]_vars

\* C21 amended: for each account, a duplicate tag of 0xFF makes the parser
\* consume the full account body, and any other tag makes it consume only the
\* tag and 7 bytes of padding.
C21_MarkerIsBody ==
    [][IsParseAccount =>
          IF input'[top_ptr] = 255 THEN ConsumedBody ELSE ConsumedReference]_vars

\* The first account had the tag 0xFF and 3 bytes of data, which took 5 bytes
\* of alignment; the second had the tag 0 and ended 8 bytes after it began.
C21_Witness ==
    /\ parse_stage = "accounts"
    /\ idx = 2
    /\ input[8] = 255
    /\ input[88] = 3
    /\ input[10352] = 0
    /\ top_ptr = 10360
    /\ \E n \in 1..Len(mapping) :
         mapping[n] = [from |-> 10339, len |-> 5, attr |-> AccountAttr(0, "AlignData")]

\* The runs of m tile the offsets [0, L): the first begins at 0, each begins
\* where the one before it ended, none is empty and the last ends at L.
Tiles(m, L) ==
    /\ m # <<>>
    /\ m[1].from = 0
    /\ \A n \in 1..Len(m) : m[n].len > 0
    /\ \A n \in 1..(Len(m) - 1) : m[n + 1].from = m[n].from + m[n].len
    /\ m[Len(m)].from + m[Len(m)].len = L

\* The serialized input lies within the region and the parser went through it.
WellFormedParsed == parse_stage = "done" /\ top_ptr <= input_len

\* C22: for a well-formed input, whatever its accounts, data lengths and
\* instruction length, the offsets labelled are exactly [0, L), L the offset
\* just past the 32-byte program id, and no offset is labelled by two fields:
\* the parse pointer moved by exactly the bytes labelled for each field.
C22_EveryByteLabelledOnce ==
    WellFormedParsed =>
        /\ Tiles(mapping, top_ptr)
        /\ mapping[Len(mapping)] = [from |-> top_ptr - 32, len |-> 32, attr |-> "ProgramId"]

\* An input of two accounts, the first with the tag 0xFF and 8 bytes of data,
\* the second a duplicate, and 5 instruction bytes was parsed to its end at
\* offset 10405.
C22_Witness ==
    /\ WellFormedParsed
    /\ account_number = 2
    /\ input[8] = 255
    /\ input[88] = 8
    /\ input[10352] = 1
    /\ input[10360] = 5
    /\ top_ptr = 10405
    /\ Len(mapping) = 18

\* The opcodes that are off under dialect v: LD_DW_IMM when disable_lddw, the
\* classic memory encoding when move_memory_instruction_classes and the moved
\* one when not, MUL/DIV/MOD of the ALU classes when enable_pqr and the PQR
\* class when not, NEG when disable_neg, LE when disable_le, HOR64_IMM when
\* LD_DW_IMM is on, SYSCALL without static_syscalls, an opcode with no handler.
TurnedOff(v, opc) ==
    \/ opc = "LD_DW_IMM" /\ v.disable_lddw
    \/ opc \in ClassicLoads \cup ClassicImmStores \cup ClassicRegStores
          /\ v.move_memory_instruction_classes
    \/ opc \in MovedLoads \cup MovedImmStores \cup MovedRegStores
          /\ ~v.move_memory_instruction_classes
    \/ opc \in MulOps \cup LegacyDivOps /\ v.enable_pqr
    \/ opc \in PqrMulOps \cup PqrUnsignedDivOps \cup PqrSignedDivOps /\ ~v.enable_pqr
    \/ opc \in NegOps /\ v.disable_neg
    \/ opc = "LE" /\ v.disable_le
    \/ opc = "HOR64_IMM" /\ ~v.disable_lddw
    \/ opc = "SYSCALL" /\ ~v.static_syscalls
    \/ opc \in NoHandlerOps

\* The moved opcode of the same access as a classic memory opcode.
MovedOf(opc) ==
    CASE opc = "LD_B_REG" -> "LD_1B_REG" [] opc = "LD_H_REG" -> "LD_2B_REG"
      [] opc = "LD_W_REG" -> "LD_4B_REG" [] opc = "LD_DW_REG" -> "LD_8B_REG"
      [] opc = "ST_B_IMM" -> "ST_1B_IMM" [] opc = "ST_H_IMM" -> "ST_2B_IMM"
      [] opc = "ST_W_IMM" -> "ST_4B_IMM" [] opc = "ST_DW_IMM" -> "ST_8B_IMM"
      [] opc = "ST_B_REG" -> "ST_1B_REG" [] opc = "ST_H_REG" -> "ST_2B_REG"
      [] opc = "ST_W_REG" -> "ST_4B_REG" [] opc = "ST_DW_REG" -> "ST_8B_REG"

C24_KeyIsWriteOnce ==
    [][ /\ key_stores' <= 1
        /\ key_cell # NoKey => key_cell' = key_cell
        /\ \A t \in KeyThreads : thr'[t].got # NoKey => thr'[t].got = key_cell' ]_vars

\* Two threads have called and got the stored key, the shifted i32::MIN, one
\* of them as often as a thread may.
C24_Witness ==
    /\ key_stores = 1
    /\ \E t, u \in KeyThreads :
         /\ t # u
         /\ thr[t].calls = 1 /\ thr[t].at = "idle" /\ thr[t].got = key_cell
         /\ thr[u].calls = MaxKeyCalls /\ thr[u].at = "idle" /\ thr[u].got = key_cell
    /\ key_cell = <<-134217728>>

\* The latest step executed a BPF-to-BPF call: CALL_REG, or a CALL_IMM that
\* the syscall registry does not take and the function registry resolves.
WasBpfCall ==
    /\ nsteps > 0
    /\ last.executed
    /\ \/ last.opc = "CALL_REG"
       \/ /\ last.opc = "CALL_IMM"
          /\ config.sbpf_version.static_syscalls \/ text[last.pc].imm \notin SyscallKeys
          /\ calculate_call_imm_target_pc(config, last.pc, text[last.pc].imm) \in FunctionKeys

\* The latest step left one frame more than it found, without the depth fault.
FramePushed ==
    /\ last.ret # "panic"
    /\ call_depth = last.call_depth + 1
    /\ last.fault # "CallDepthExceeded"

\* C25: a BPF-to-BPF call executed at call depth d pushes a frame iff
\* d + 1 < max_call_depth, at d + 1 = max_call_depth the step faults
\* CallDepthExceeded, and a program that can take a step never has more than
\* max_call_depth - 1 frames.
C25_CallDepthLimit ==
    /\ WasBpfCall =>
          /\ FramePushed <=> last.call_depth + 1 < config.max_call_depth
          /\ last.call_depth + 1 = config.max_call_depth =>
                last.ret = "false" /\ last.fault = "CallDepthExceeded"
    /\ (phase = "running" /\ call_depth > 0) => call_depth <= config.max_call_depth - 1

\* The instruction this step executes, and its operand values.
Stepped == text'[pc]
SteppedOperand ==
    IF Stepped.opc \in JumpImmOps THEN FromI64(Stepped.imm) ELSE reg[Stepped.src]

\* Where the claim says this step's edge leads.
ClaimedSuccessor ==
    CASE Stepped.opc \in JumpImmOps \cup JumpRegOps ->
             IF JumpTaken(Stepped.opc, reg[Stepped.dst], SteppedOperand)
             THEN pc + 1 + Stepped.off ELSE pc + 1
      [] Stepped.opc = "JA" -> pc + 1 + Stepped.off
      [] Stepped.opc = "CALL_IMM" ->
             function_lookup(calculate_call_imm_target_pc(config, pc, Stepped.imm))
      [] Stepped.opc = "CALL_REG" ->
             CallRegTarget(IF config.sbpf_version.callx_uses_src_reg
                           THEN reg[Stepped.src] ELSE reg[Stepped.imm])
      [] Stepped.opc \in {"RETURN", "EXIT"} -> shadow[Len(shadow)].pc + 1
      [] OTHER -> pc + 1

\* C26: the jump log only grows, by appending, and a record appended by a
\* step that returns true is (pc of the instruction executed, pc of the next
\* fetch): the jump target or the fall-through of a conditional jump, the
\* callee's entry for a BPF-to-BPF call, the pc after the matching call for
\* a return at depth > 0.
C26_JumpLogEdges ==
    [][ /\ Len(jump_log') >= Len(jump_log)
        /\ SubSeq(jump_log', 1, Len(jump_log)) = jump_log
        /\ (IsStep /\ last'.ret = "true" /\ jump_log' # jump_log) =>
              /\ jump_log' = Append(jump_log, <<pc, pc'>>)
              /\ pc' = ClaimedSuccessor ]_vars

\* The log of a call, a conditional jump back that was not taken and the
\* return to the word after the call.
C26_Witness ==
    /\ text[0] = Insn("CALL_IMM", 0, 0, 0, 1)
    /\ text[1] = Insn("JNE_REG", 6, 0, -2, 0)
    /\ jump_log = << <<0, 1>>, <<1, 2>>, <<2, 1>> >>
    /\ last.opc \in {"RETURN", "EXIT"}
    /\ phase = "running"

\* A conditional jump was taken and its edge leads to the target.
C26_TakenWitness ==
    /\ last.opc = "JEQ_IMM"
    /\ last.ret = "true"
    /\ jump_log # <<>>
    /\ jump_log[Len(jump_log)] = <<last.pc, last.pc + 2>>

\* This step begins with a pc at or past the end of the text; a pc that
\* wrapped below zero is a u64 past every text.
BeginsPastText == IsStep /\ (pc < 0 \/ pc * INSN_SIZE >= ProgLen * INSN_SIZE)

\* The budget is spent as this step begins.
BudgetSpent ==
    config.enable_instruction_meter /\ due_insn_count >= previous_instruction_meter

\* This step leaves registers, memory, taint and both logs as they were and
\* fetches nothing.
TouchesNothing ==
    /\ ~last'.executed
    /\ text' = text
    /\ UNCHANGED <<reg, pc, mem, taint, instruction_record, jump_log, call_depth, call_frames>>

\* What a step past the text does, by the budget: the meter's fault with the
\* due count as it was, or ExecutionOverrun with the due count one higher.
PastTextOutcome ==
    /\ TouchesNothing
    /\ last'.ret = "false"
    /\ IF BudgetSpent
       THEN last'.fault = "ExceededMaxInstructions" /\ due_insn_count' = due_insn_count
       ELSE last'.fault = "ExecutionOverrun" /\ due_insn_count' = due_insn_count + 1

\* C27: a step begun with pc * 8 >= the text length faults ExecutionOverrun
\* without fetching and without changing registers, memory, taint or logs,
\* the due count being one higher; unless the meter is on and spent, when the
\* fault is ExceededMaxInstructions and the due count is as it was.
C27_OverrunBeforeFetch ==
    [][BeginsPastText => PastTextOutcome]_vars

\* The same for a pc that did not wrap: at or past the end of the text.
C27_OverrunBeforeFetchUnwrapped ==
    [][(BeginsPastText /\ pc >= 0) => PastTextOutcome]_vars

\* The step() invocations of this run that passed the budget check: all of
\* them but a last one that the meter stopped before its fetch.
PassedBudgetCheck ==
    nsteps - (IF last.fault = "ExceededMaxInstructions" /\ ~last.executed THEN 1 ELSE 0)

\* C28: with the meter on and no syscall, the executed count execute_program
\* returns is the number of step() invocations that passed the budget check,
\* the instruction that faulted or ended the program included; a quota of 2
\* or more on MOV64_IMM r1, 0; DIV64_REG r2, r1 gives (2, Err(DivideByZero))
\* and an empty jump log.
C28_ExecutedCountsBudgetedSteps ==
    (config.enable_instruction_meter /\ ~syscalled /\ phase = "done") =>
        /\ returned[1] = PassedBudgetCheck
        /\ (/\ text[0] = Insn("MOV64_IMM", 1, 0, 0, 0)
            /\ text[1] = Insn("DIV64_REG", 2, 1, 0, 0)
            /\ ~config.sbpf_version.enable_pqr
            /\ initial_insn_count >= 2) =>
              returned = <<2, Err("DivideByZero")>> /\ jump_log = <<>>

\* The run of MOV64_IMM r1, 0; DIV64_REG r2, r1 under a quota of 3 was reported.
C28_Witness ==
    /\ phase = "done"
    /\ text[0] = Insn("MOV64_IMM", 1, 0, 0, 0)
    /\ text[1] = Insn("DIV64_REG", 2, 1, 0, 0)
    /\ initial_insn_count = 3
    /\ returned = <<2, Err("DivideByZero")>>
    /\ last.fault = "DivideByZero"

\* This step executes a CALL_IMM.
IsCallImm == IsStep /\ last'.executed /\ Stepped.opc = "CALL_IMM"

\* The key under which the function registry is asked.
CallKey == calculate_call_imm_target_pc(config, pc, Stepped.imm)

\* The step went to the builtin: no frame, the depth and the jump log as they
\* were, and, unless dispatch_syscall panicked on its meter arithmetic, the
\* builtin was invoked (which zeroes the due count).
WentToBuiltin ==
    /\ call_depth' = call_depth
    /\ call_frames' = call_frames
    /\ jump_log' = jump_log
    /\ last'.fault \in {"none", "SyscallError"}
    /\ last'.ret # "panic" => (syscalled' /\ due_insn_count' = 0)
    /\ last'.ret = "true" => pc' = pc + 1

\* The step went to the registered function: a frame push at the current
\* depth and, when push and target check pass, a jump to the function's pc.
WentToFunction ==
    /\ syscalled' = syscalled
    /\ due_insn_count' = due_insn_count + 1
    /\ last'.frame_idx = {call_depth}
    /\ last'.fault \in {"none", "CallDepthExceeded", "CallOutsideTextSegment"}
    /\ last'.ret = "true" =>
          /\ call_depth' = call_depth + 1
          /\ pc' = function_lookup(CallKey)
          /\ jump_log' = Append(jump_log, <<pc, pc'>>)

\* The step resolved nothing.
WentNowhere ==
    /\ last'.ret = "false"
    /\ last'.fault = "UnsupportedInstruction"
    /\ syscalled' = syscalled
    /\ last'.frame_idx = {}
    /\ UNCHANGED <<call_depth, call_frames, jump_log, reg, pc>>

\* C29: CALL_IMM resolves in a fixed order: a dialect without static
\* syscalls takes an immediate that is a builtin's key to the builtin, no
\* frame pushed, even when the function registry resolves the call too;
\* otherwise a key the function registry resolves pushes a frame and jumps
\* to the function; otherwise the step faults UnsupportedInstruction.  A
\* dialect with static syscalls never invokes a builtin from CALL_IMM.
C29_CallImmResolution ==
    [][IsCallImm =>
         /\ IF ~config.sbpf_version.static_syscalls /\ Stepped.imm \in SyscallKeys
            THEN WentToBuiltin
            ELSE IF CallKey \in FunctionKeys THEN WentToFunction ELSE WentNowhere
         /\ config.sbpf_version.static_syscalls => syscalled' = syscalled]_vars

\* A CALL_IMM whose immediate both registries resolve invoked the builtin,
\* which returned Ok, with a frame stack that had room for a push.
C29_Witness ==
    /\ last.opc = "CALL_IMM"
    /\ text[last.pc].imm \in SyscallKeys \cap FunctionKeys
    /\ ~config.sbpf_version.static_syscalls
    /\ config.max_call_depth >= 2
    /\ last.ret = "true"
    /\ syscalled
    /\ call_depth = 0
    /\ jump_log = <<>>

\* Bit i (0..31) of the low 32 bits of v, and the u32 with the bits f.
BitOf(v, i) == (v[(i \div 8) + 1] \div (2 ^ (i % 8))) % 2
OfBits(f) ==
    [k \in 1..8 |->
        IF k > 4 THEN 0
        ELSE f[8 * k - 8] + 2 * f[8 * k - 7] + 4 * f[8 * k - 6] + 8 * f[8 * k - 5]
             + 16 * f[8 * k - 4] + 32 * f[8 * k - 3] + 64 * f[8 * k - 2] + 128 * f[8 * k - 1]]

\* The 16-bit halves of the low 32 bits of v, and the u32 with halves lo, hi.
LoHalf(v) == v[1] + 256 * v[2]
HiHalf(v) == v[3] + 256 * v[4]
OfHalves(lo, hi) ==
    <<lo % 256, lo \div 256, hi % 256, hi \div 256, 0, 0, 0, 0>>

\* a + b + c modulo 2^32, for a carry c of 0 or 1.
Sum32(a, b, c) ==
    LET lo == LoHalf(a) + LoHalf(b) + c
        hi == HiHalf(a) + HiHalf(b) + (lo \div 65536)
    IN  OfHalves(lo % 65536, hi % 65536)

\* a - b modulo 2^32.
Minus32(a, b) == Sum32(a, OfHalves(65535 - LoHalf(b), 65535 - HiHalf(b)), 1)

\* v * 2^n modulo 2^32, bit by bit.
Shifted32(v, n) == OfBits([i \in 0..31 |-> IF i >= n THEN BitOf(v, i - n) ELSE 0])

\* d times the bits i..stop-1 of x, modulo 2^32.
RECURSIVE PartialProducts(_, _, _, _)
PartialProducts(d, x, i, stop) ==
    IF i = stop THEN Zero64
    ELSE Sum32(IF BitOf(x, i) = 1 THEN Shifted32(d, i) ELSE Zero64,
               PartialProducts(d, x, i + 1, stop), 0)

\* d * x modulo 2^32.
Times32(d, x) ==
    Sum32(Sum32(PartialProducts(d, x, 0, 8), PartialProducts(d, x, 8, 16), 0),
          Sum32(PartialProducts(d, x, 16, 24), PartialProducts(d, x, 24, 32), 0), 0)

\* Quotient and remainder of the u32 d by the u32 x # 0: zero and d for
\* d < x, long division on the halves for x below 2^15, and at most three
\* subtractions for x from 2^30 on.
DivMod32(d, x) ==
    LET a == ZeroExt(d, 4)
        b == ZeroExt(x, 4)
    IN  CASE CmpU(a, b) < 0 -> <<Zero64, a>>
          [] CmpU(a, b) >= 0 /\ HiHalf(b) = 0 /\ LoHalf(b) < 32768 ->
                 LET k == LoHalf(b)
                     r == HiHalf(a) % k
                 IN  <<OfHalves((r * 65536 + LoHalf(a)) \div k, HiHalf(a) \div k),
                       OfHalves((r * 65536 + LoHalf(a)) % k, 0)>>
          [] CmpU(a, b) >= 0 /\ b[4] >= 64 ->
                 LET a1 == Minus32(a, b)
                     a2 == Minus32(a1, b)
                 IN  IF CmpU(a1, b) < 0 THEN <<FromI64(1), a1>>
                     ELSE IF CmpU(a2, b) < 0 THEN <<FromI64(2), a2>>
                     ELSE <<FromI64(3), Minus32(a2, b)>>

\* The 32-bit modular result of a 32-bit ALU opcode on the u32 values of
\* dst (d) and of the operand (x), zero-extended.
Modular32(opc, d, x) ==
    LET n == x[1] % 32
    IN  CASE opc \in {"ADD32_IMM", "ADD32_REG"} -> Sum32(d, x, 0)
          [] opc = "SUB32_IMM" ->
                 IF config.sbpf_version.swap_sub_reg_imm_operands
                 THEN Minus32(x, d) ELSE Minus32(d, x)
          [] opc = "SUB32_REG" -> Minus32(d, x)
          [] opc \in {"MUL32_IMM", "MUL32_REG"} -> Times32(d, x)
          [] opc \in {"DIV32_IMM", "DIV32_REG"} -> DivMod32(d, x)[1]
          [] opc \in {"MOD32_IMM", "MOD32_REG"} -> DivMod32(d, x)[2]
          [] opc \in {"OR32_IMM", "OR32_REG"} ->
                 OfBits([i \in 0..31 |-> IF BitOf(d, i) = 1 \/ BitOf(x, i) = 1 THEN 1 ELSE 0])
          [] opc \in {"AND32_IMM", "AND32_REG"} ->
                 OfBits([i \in 0..31 |-> IF BitOf(d, i) = 1 /\ BitOf(x, i) = 1 THEN 1 ELSE 0])
          [] opc \in {"XOR32_IMM", "XOR32_REG"} ->
                 OfBits([i \in 0..31 |-> IF BitOf(d, i) # BitOf(x, i) THEN 1 ELSE 0])
          [] opc \in {"LSH32_IMM", "LSH32_REG"} -> Shifted32(d, n)
          [] opc \in {"RSH32_IMM", "RSH32_REG"} ->
                 OfBits([i \in 0..31 |-> IF i + n <= 31 THEN BitOf(d, i + n) ELSE 0])
          [] opc \in {"ARSH32_IMM", "ARSH32_REG"} ->
                 OfBits([i \in 0..31 |-> IF i + n <= 31 THEN BitOf(d, i + n) ELSE BitOf(d, 31)])
          [] opc = "NEG32" -> Minus32(Zero64, d)
          [] opc \in {"MOV32_IMM", "MOV32_REG"} -> ZeroExt(x, 4)

\* Every opcode of the ALU32 class.
Alu32Names ==
    Alu32Ops \cup {"DIV32_IMM", "DIV32_REG", "MOD32_IMM", "MOD32_REG", "MOV32_IMM"}

\* This step executes a 32-bit ALU opcode and returns true.
IsAlu32Step ==
    IsStep /\ last'.executed /\ last'.ret = "true" /\ Stepped.opc \in Alu32Names

\* The operand of this step's opcode, and what the step leaves in dst.
Alu32Operand ==
    IF Stepped.opc \in Alu32RegOps \cup {"DIV32_REG", "MOD32_REG"}
    THEN reg[Stepped.src] ELSE FromI64(Stepped.imm)
Alu32Result == reg'[Stepped.dst]

\* The upper 32 bits are zero; are copies of bit 31.
UpperZero(v) == \A i \in 5..8 : v[i] = 0
UpperSign(v) == \A i \in 5..8 : v[i] = (IF v[4] >= 128 THEN 255 ELSE 0)

\* The low 32 bits of dst are the 32-bit modular result.
LowIsModular ==
    ZeroExt(Alu32Result, 4) = Modular32(Stepped.opc, reg[Stepped.dst], Alu32Operand)

\* The step before this one was a 32-bit ALU step too, and bit 31 of its
\* result is set: its extension shows in the upper half of its dst.
EarlierAlu32Result == reg[text[last.pc].dst]
EarlierShowsExtension ==
    /\ last.executed /\ last.ret = "true" /\ last.opc \in Alu32Names
    /\ EarlierAlu32Result[4] >= 128

\* C30 as stated: a 32-bit ALU opcode leaves the 32-bit modular result in
\* the low half of dst and zeroes or copies of bit 31 in the upper half, and
\* which of the two is one choice per dialect: two 32-bit ALU steps of a run
\* whose results have bit 31 set extend alike.
C30_OneExtensionPerDialect ==
    [][IsAlu32Step =>
         /\ LowIsModular
         /\ UpperZero(Alu32Result) \/ UpperSign(Alu32Result)
         /\ (Alu32Result[4] >= 128 /\ EarlierShowsExtension) =>
               (UpperZero(Alu32Result) <=> UpperZero(EarlierAlu32Result))]_vars

\* The opcodes whose arm sign-extends under the dialect: ADD32 and SUB32
\* without explicit sign extension, MOV32_REG with it, MUL32 always.
SignExtends(opc) ==
    CASE opc \in {"ADD32_IMM", "ADD32_REG", "SUB32_IMM", "SUB32_REG"} ->
             ~config.sbpf_version.explicit_sign_extension_of_results
      [] opc \in {"MUL32_IMM", "MUL32_REG"} -> TRUE
      [] opc = "MOV32_REG" -> config.sbpf_version.explicit_sign_extension_of_results
      [] OTHER -> FALSE

\* C30 amended: a 32-bit ALU opcode leaves the 32-bit modular result in the
\* low half of dst, and the upper half is the sign extension for the opcodes
\* that sign-extend under the dialect and zero for every other one.
C30_ExtensionByOpcode ==
    [][IsAlu32Step =>
         /\ LowIsModular
         /\ IF SignExtends(Stepped.opc)
            THEN UpperSign(Alu32Result) ELSE UpperZero(Alu32Result)]_vars

\* Without explicit sign extension OR32 left 0x80000003 zero-extended in r6
\* and ADD32 then left 0x80000006 sign-extended.
C30_Witness ==
    /\ ~config.sbpf_version.explicit_sign_extension_of_results
    /\ text[0] = Insn("MOV64_IMM", 6, 0, 0, I32_MIN)
    /\ text[1] = Insn("OR32_IMM", 6, 0, 0, 3)
    /\ text[2] = Insn("ADD32_IMM", 6, 0, 0, 3)
    /\ last.opc = "ADD32_IMM"
    /\ last.reg[6] = <<3, 0, 0, 128, 0, 0, 0, 0>>
    /\ reg[6] = <<6, 0, 0, 128, 255, 255, 255, 255>>

\* ------------------------------------------------- frames and reuse

\* Nested calls, returns and a fault that can strike inside a call, in a
\* program that leaves r10 to the interpreter.
FrameInsns ==
    { Insn("MOV64_IMM", 6, 0, 0, 1),
      Insn("DIV64_REG", 3, 0, 0, 0),
      Insn("CALL_IMM", 0, 0, 0, 0),
      Insn("CALL_IMM", 0, 0, 0, 1),
      Insn("RETURN", 0, 0, 0, 0),
      Insn("EXIT", 0, 0, 0, 0) }

\* Both frame layouts, static and dynamic frames, no meter.
FrameConfigs ==
    { c \in Configs : ~c.enable_instruction_meter /\ c.sbpf_version \in {V0, V2} }

InitFrame ==
    /\ InitWith(FrameConfigs, {<<>>})
    /\ remaining = 1

NextFrame ==
    \/ ExecuteProgramBegin
    \/ ExecuteProgramAgain
    \/ Step(FrameInsns)
    \/ ExecuteProgramEnd

SpecFrame == InitFrame /\ [][NextFrame]_vars

\* What the claim says one call adds to r10.
FrameStep(cfg) ==
    IF cfg.sbpf_version.dynamic_stack_frames THEN 0
    ELSE IF cfg.enable_stack_frame_gaps THEN cfg.stack_frame_size * 2
    ELSE cfg.stack_frame_size

\* The latest step was a BPF-to-BPF call that went through.
CallSucceeded == WasBpfCall /\ FramePushed /\ last.ret = "true"

\* C31: a successful BPF-to-BPF call adds stack_frame_size * 2 (frame gaps),
\* stack_frame_size (no gaps) or nothing (dynamic stack frames) to r10, and
\* under static frames a program that never writes r10 has
\* r10 = initial r10 + call_depth * frame step whenever a step can be taken.
C31_FramePointerTracksDepth ==
    /\ CallSucceeded =>
          reg[FRAME_PTR_REG]
              = wrapping_add(last.reg[FRAME_PTR_REG], FromI64(FrameStep(config)))
    /\ (phase = "running" /\ ~config.sbpf_version.dynamic_stack_frames) =>
          reg[FRAME_PTR_REG]
              = wrapping_add(NewRegisters(config)[FRAME_PTR_REG],
                             FromI64(call_depth * FrameStep(config)))

\* ------------------------------------------------------- two runs

\* A program over the seeded input for a pair of runs: word 0 loads r3, and
\* from word 1 on it may load r4, compare and branch on what was loaded, move
\* and store it, overwrite it, call, divide by the clean zero of r0, and exit.
TwinInsns ==
    IF pc = 0
    THEN { Insn("LD_DW_REG", 3, 1, 0, 0), Insn("LD_W_REG", 3, 1, 0, 0) }
    ELSE { Insn("LD_H_REG", 4, 1, 2, 0),
           Insn("JEQ_IMM", 3, 0, 1, InputWord),
           Insn("JNE_REG", 3, 4, 1, 0),
           Insn("JA", 0, 0, -2, 0),
           Insn("MOV64_REG", 0, 3, 0, 0),
           Insn("MOV64_IMM", 3, 0, 0, 5),
           Insn("ST_W_REG", 1, 3, 4, 0),
           Insn("ST_B_IMM", 1, 0, 0, -1),
           Insn("ST_DW_REG", 3, 3, 0, 0),
           Insn("DIV64_REG", 3, 0, 0, 0),
           Insn("CALL_IMM", 0, 0, 0, 2),
           Insn("EXIT", 0, 0, 0, 0) }

TwinConfigs ==
    { c \in Configs : /\ c.enable_stack_frame_gaps
                      /\ c.max_call_depth = 2
                      /\ c.sbpf_version = V0 }

\* Two runs of one program on one configuration, quota, register file and
\* guest memory: this run starts from one seed, the second from another.
InitTwin ==
    /\ InitVm(TwinConfigs, SampleSeeds)
    /\ NoParse
    /\ NoKeyCalls
    /\ config.enable_instruction_meter \/ remaining = 0
    /\ \E seed \in SampleSeeds \ {taint} :
          twin = [live |-> TRUE, agrees |-> TRUE, taint |-> seed,
                  instruction_record |-> <<>>]

NextTwin ==
    \/ ExecuteProgramBegin
    \/ Step(TwinInsns)
    \/ ExecuteProgramEnd

SpecTwin == InitTwin /\ [][NextTwin]_vars

\* C32: two runs of the same program from the same registers, guest memory,
\* configuration and quota that differ only in the initial taint state
\* execute the same pcs and show the same registers, memory, jump log, result
\* and due count after every step.
C32_TaintIsObservationOnly == twin.agrees

\* Two runs ended with the same result after a load, a store of the loaded
\* bytes and a comparison on them, and their taint engines hold different
\* taint and different comparison logs.
C32_Witness ==
    /\ twin.live /\ twin.agrees
    /\ phase = "done"
    /\ text[0].opc = "LD_W_REG"
    /\ text[1].opc = "ST_W_REG"
    /\ text[2].opc = "JEQ_IMM"
    /\ nsteps = 4
    /\ twin.taint # taint
    /\ Len(twin.instruction_record) # Len(instruction_record)

\* The origins a taint state holds.
Origins(t) == { t[a] : a \in DOMAIN t }

\* C33: every Tainted(o) entry of the taint state carries an origin o of the
\* seeded taint state, and from an all-Clean seed the taint state stays
\* all-Clean and the comparison log stays empty.
C33_TaintHasSeededOrigin ==
    /\ Origins(taint) \subseteq Origins(seeded)
    /\ \A i \in 1..Len(instruction_record) :
          \A side \in {instruction_record[i].src, instruction_record[i].dst} :
             is_tainted(side.taint) => side.taint[2] \in Origins(seeded)
    /\ Origins(seeded) = {} => (DOMAIN taint = {} /\ instruction_record = <<>>)

\* Seeded origins reached a register and memory bytes that were not seeded,
\* and a comparison on them was logged.
C33_Witness ==
    /\ nsteps >= 3
    /\ \E a \in DOMAIN taint : a[1] = "Register"
    /\ \E a \in DOMAIN taint : a[1] = "Memory" /\ a \notin DOMAIN seeded
    /\ instruction_record # <<>>

\* A run from an all-Clean seed loaded, stored and compared.
C33_CleanWitness ==
    /\ seeded = SeedOf({})
    /\ nsteps = 4
    /\ text[0].opc = "LD_W_REG" /\ text[1].opc = "ST_W_REG" /\ text[2].opc = "JEQ_IMM"

\* ----------------------------------------------- opcodes and the taint state

\* The opcodes whose arm calls the taint engine's propagate or clear.
TaintWriters ==
    Loads \cup ImmStores \cup RegStores
    \cup {"MOV32_IMM", "MOV32_REG", "MOV64_IMM", "MOV64_REG", "LD_DW_IMM"}

\* Every other opcode that has an arm: arithmetic, logic, shifts, NEG, LE and
\* BE, HOR64, the PQR class, jumps, calls and returns.
QuietOps ==
    (Alu64Ops \cup Alu32Ops \cup AluOps \cup DivOps \cup JumpImmOps \cup JumpRegOps
        \cup {"JA", "CALL_IMM", "CALL_REG", "SYSCALL", "RETURN", "EXIT"})
    \ TaintWriters

\* Word 0 loads r3 from the seeded input (r4 stays zero and clean); word 1 is
\* any such opcode the dialect enables, on r3 and r4 in either role or on r3
\* alone, or a call of word 2; later words add, xor, return or exit.
QuietInsns ==
    IF pc = 0
    THEN { Insn("LD_DW_REG", 3, 1, 0, 0), Insn("LD_8B_REG", 3, 1, 0, 0) }
    ELSE IF pc = 1
    THEN { Insn(opc, ds[1], ds[2], 0, IF opc \in {"LE", "BE"} THEN 16 ELSE 3) :
             opc \in QuietOps, ds \in {<<3, 4>>, <<4, 3>>, <<3, 3>>} }
         \cup { Insn("CALL_IMM", 0, 0, 0, 0), Insn("CALL_IMM", 0, 0, 0, 2) }
    ELSE { Insn("ADD64_REG", 4, 3, 0, 0), Insn("XOR64_REG", 3, 3, 0, 0),
           Insn("RETURN", 0, 0, 0, 0), Insn("EXIT", 0, 0, 0, 0) }

QuietConfigs ==
    { c \in Configs : /\ c.enable_stack_frame_gaps
                      /\ ~c.enable_instruction_meter
                      /\ c.max_call_depth = 2 }

InitQuiet ==
    /\ InitWith(QuietConfigs, SampleSeeds)
    /\ remaining = 0

NextQuiet ==
    \/ ExecuteProgramBegin
    \/ Step({ i \in QuietInsns : ArmGuard(config.sbpf_version, i.opc) })
    \/ ExecuteProgramEnd

SpecQuiet == InitQuiet /\ [][NextQuiet]_vars

\* C34: a step of an opcode other than loads, stores, MOV32/MOV64 (register
\* and immediate) and LD_DW_IMM leaves every taint entry as it was before the
\* step, whatever the taint of its operands.
C34_OtherOpcodesKeepTaint ==
    (nsteps > 0 /\ last.executed /\ last.opc \notin TaintWriters) => taint = last.taint

\* ADD64_REG r4, r3 added the tainted r3 to the clean r4: r4 holds the
\* loaded value and is clean, r3 is tainted.
C34_Witness ==
    /\ text[1] = Insn("ADD64_REG", 4, 3, 0, 3)
    /\ last.opc = "ADD64_REG" /\ last.pc = 1 /\ last.ret = "true"
    /\ reg[4] = reg[3] /\ reg[4] # Zero64
    /\ \A i \in 0..7 : RegisterByte(3, i) \in DOMAIN taint
    /\ \A i \in 0..7 : RegisterByte(4, i) \notin DOMAIN taint

\* This step is a load of fewer than 8 bytes that went through.
IsNarrowLoad ==
    /\ IsStep
    /\ last'.opc \in Loads /\ last'.ret = "true"
    /\ MemWidth(last'.opc) < 8

\* The register bytes a load of this step's width writes taint for.
LoadedBytes == { RegisterByte(Stepped.dst, i) : i \in 0..(MemWidth(Stepped.opc) - 1) }

\* C35: a load of width W < 8 into dst changes the taint of register bytes
\* (dst, 0..W-1) only: bytes (dst, W..7) keep their taint, as does every
\* other address, while the values of bytes W..7 become zero.
C35_NarrowLoadKeepsUpperTaint ==
    [][IsNarrowLoad =>
         /\ \A i \in MemWidth(Stepped.opc)..7 :
               /\ TaintOf(taint', RegisterByte(Stepped.dst, i))
                     = TaintOf(taint, RegisterByte(Stepped.dst, i))
               /\ reg'[Stepped.dst][i + 1] = 0
         /\ \A a \in (DOMAIN taint \cup DOMAIN taint') \ LoadedBytes :
               TaintOf(taint', a) = TaintOf(taint, a)]_vars

\* After a 4-byte load tainted r3's bytes 0 to 2, a 1-byte load into r3 left
\* byte 1 zero and tainted with the origin the first load gave it.
C35_Witness ==
    /\ text[0].opc \in {"LD_W_REG", "LD_4B_REG"} /\ text[0].off = 0 /\ text[0].dst = 3
    /\ text[1].opc \in {"LD_B_REG", "LD_1B_REG"} /\ text[1].dst = 3
    /\ nsteps = 2 /\ last.ret = "true"
    /\ reg[3][2] = 0
    /\ TaintOf(taint, RegisterByte(3, 1)) = Tainted(2)
    /\ TaintOf(last.taint, RegisterByte(3, 1)) = Tainted(2)

\* The latest step executed a RETURN or EXIT at call depth 0.
WasTopLevelExit ==
    /\ nsteps > 0
    /\ last.executed
    /\ last.opc \in {"RETURN", "EXIT"}
    /\ last.call_depth = 0

\* C36: with the meter on and no syscall executed in the run,
\* due_insn_count <= previous_instruction_meter in every state, and a
\* RETURN/EXIT at call depth 0 never faults ExceededMaxInstructions.
C36_DueWithinQuota ==
    (config.enable_instruction_meter /\ ~syscalled) =>
        /\ due_insn_count <= previous_instruction_meter
        /\ WasTopLevelExit => last.fault # "ExceededMaxInstructions"

\* A metered run without syscalls spent its whole quota, the last of it on a
\* top-level exit that ended the program with Ok.
C36_Witness ==
    /\ config.enable_instruction_meter /\ ~syscalled
    /\ WasTopLevelExit
    /\ LegalExit(last.opc)
    /\ phase = "halted"
    /\ due_insn_count = previous_instruction_meter
    /\ previous_instruction_meter >= 2
    /\ program_result[1] = "Ok"

\* An invocation of execute_program is about to take its first step.
RunStarts == phase = "running" /\ nsteps = 0

\* C37: every invocation of execute_program starts interpreting at call
\* depth 0, whatever the earlier invocations on the same VM left, so a
\* RETURN/EXIT that the dialect has, taken as the invocation's first step,
\* ends the program with Ok(reg[0]) and pops no frame.
C37_RunStartsAtDepthZero ==
    /\ RunStarts => call_depth = 0
    /\ (/\ phase \in {"running", "halted"}
        /\ nsteps = 1 /\ last.executed /\ LegalExit(last.opc)) =>
           /\ phase = "halted"
           /\ program_result = Ok(last.reg[0])
           /\ call_depth = last.call_depth

\* ------------------------------------------------------- meter off

\* Loops, calls, builtins, a fault and exits: runs of more steps than any
\* remaining count the context object holds.
UnmeteredInsns ==
    { Insn("MOV64_IMM", 6, 0, 0, 5),
      Insn("JA", 0, 0, -1, 0),
      Insn("JA", 0, 0, -2, 0),
      Insn("DIV64_REG", 3, 0, 0, 0),
      Insn("CALL_IMM", 0, 0, 0, 1),
      Insn("CALL_IMM", 0, 0, 0, 7),
      Insn("SYSCALL", 0, 0, 0, 7),
      Insn("RETURN", 0, 0, 0, 0),
      Insn("EXIT", 0, 0, 0, 0) }

UnmeteredConfigs ==
    { c \in Configs : /\ c.enable_stack_frame_gaps
                      /\ ~c.enable_instruction_meter
                      /\ c.max_call_depth = 2
                      /\ c.sbpf_version \in {V0, V3} }

\* The context object holds any remaining count, 0 included.
InitUnmetered == InitWith(UnmeteredConfigs, {<<>>})

NextUnmetered ==
    \/ ExecuteProgramBegin
    \/ ExecuteProgramAgain
    \/ Step(UnmeteredInsns)
    \/ ExecuteProgramEnd

SpecUnmetered == InitUnmetered /\ [][NextUnmetered]_vars

\* C38: with enable_instruction_meter false no step faults
\* ExceededMaxInstructions whatever the remaining count, the context
\* object's remaining count is never consumed, and execute_program returns
\* executed count 0.
C38_MeterOffCountsNothing ==
    ~config.enable_instruction_meter =>
        /\ last.fault # "ExceededMaxInstructions"
        /\ program_result # Err("ExceededMaxInstructions")
        /\ phase # "new" => remaining = initial_insn_count
        /\ phase = "done" => returned[1] = 0

\* With the meter off and a remaining count of 1, a run of five steps ended
\* in a top-level exit and was reported with count 0; the remaining count
\* is still 1.
C38_Witness ==
    /\ ~config.enable_instruction_meter
    /\ phase = "done"
    /\ nsteps >= 5
    /\ last.opc \in {"RETURN", "EXIT"} /\ last.fault = "none"
    /\ remaining = 1 /\ initial_insn_count = 1
    /\ returned[1] = 0 /\ returned[2][1] = "Ok"

\* The same with a remaining count of 0.
C38_ZeroWitness ==
    /\ ~config.enable_instruction_meter
    /\ phase = "done"
    /\ nsteps >= 5
    /\ remaining = 0 /\ initial_insn_count = 0
    /\ returned[1] = 0 /\ returned[2][1] = "Ok"

\* ------------------------------------------------- access violations

\* Word 0 loads r3 from the seeded input; later words compare r3, call word
\* 2, load and store in both encodings and every width at input offset 12
\* (the 8-byte forms cross the end of the region) and at address 0 (r4, no
\* region), or exit.
ViolationAll ==
    IF pc = 0
    THEN { Insn("LD_DW_REG", 3, 1, 0, 0), Insn("LD_8B_REG", 3, 1, 0, 0) }
    ELSE { Insn("JEQ_IMM", 3, 0, 0, -2), Insn("CALL_IMM", 0, 0, 0, 2),
           Insn("EXIT", 0, 0, 0, 0) }
         \cup { Insn(opc, 3, 1, 12, 0) : opc \in Loads }
         \cup { Insn(opc, 3, 4, 0, 0) : opc \in Loads }
         \cup { Insn(opc, 1, 3, 12, 0) : opc \in RegStores }
         \cup { Insn(opc, 4, 3, 0, 0) : opc \in RegStores }
         \cup { Insn(opc, 1, 0, 12, -1) : opc \in ImmStores }
         \cup { Insn(opc, 4, 0, 0, -1) : opc \in ImmStores }

ViolationInsns == { i \in ViolationAll : ArmGuard(config.sbpf_version, i.opc) }

ViolationConfigs ==
    { c \in Configs : /\ c.enable_stack_frame_gaps
                      /\ c.max_call_depth = 2
                      /\ c.sbpf_version \in {V0, V2} }

InitViolation ==
    /\ InitWith(ViolationConfigs, {SeedOf({}), SeedOf(0..7)})
    /\ remaining = MaxQuota

NextViolation ==
    \/ ExecuteProgramBegin
    \/ Step(ViolationInsns)
    \/ ExecuteProgramEnd

SpecViolation == InitViolation /\ [][NextViolation]_vars

\* This step is a load or store that faulted with AccessViolation.
IsAccessViolation ==
    /\ IsStep
    /\ last'.executed
    /\ last'.opc \in Loads \cup ImmStores \cup RegStores
    /\ last'.fault = "AccessViolation"

\* C39: a load or store step that faults with AccessViolation leaves
\* registers 0..10, the interpreter's pc, guest memory, the taint state, the
\* comparison log, the jump log and the call depth as they were; the due
\* count, the program result and the VM's register slot 11 are what change.
C39_AccessViolationChangesNothing ==
    [][IsAccessViolation =>
         /\ reg' = reg /\ pc' = pc
         /\ vm_registers' = vm_registers
         /\ mem' = mem
         /\ taint' = taint
         /\ instruction_record' = instruction_record
         /\ jump_log' = jump_log
         /\ call_depth' = call_depth /\ call_frames' = call_frames
         /\ due_insn_count' = due_insn_count + 1
         /\ program_result' = Err("AccessViolation")
         /\ vm_pc' = pc]_vars

\* After a logged comparison on tainted bytes, an 8-byte store of the
\* tainted r3 across the end of the input region faulted.
C39_Witness ==
    /\ last.fault = "AccessViolation" /\ last.opc \in {"ST_DW_REG", "ST_8B_REG"}
    /\ last.executed
    /\ instruction_record # <<>> /\ jump_log # <<>>
    /\ \A i \in 0..7 : RegisterByte(3, i) \in DOMAIN taint
    /\ vm_pc = 2 /\ pc = 2
    /\ due_insn_count = 3
    /\ program_result = Err("AccessViolation")

\* Inside a call, a load from address 0 faulted and the call depth stayed.
C39_CallWitness ==
    /\ last.fault = "AccessViolation" /\ last.opc \in Loads
    /\ call_depth = 1 /\ last.call_depth = 1
    /\ program_result = Err("AccessViolation")

\* ------------------------------------------------------ faulting calls

\* This step is a CALL_REG or CALL_IMM that faulted as a call.
IsFaultingCall ==
    /\ IsStep
    /\ last'.executed
    /\ last'.opc \in {"CALL_REG", "CALL_IMM"}
    /\ last'.fault \in {"CallDepthExceeded", "CallOutsideTextSegment",
                        "UnsupportedInstruction"}

\* C40: when a CALL_REG or CALL_IMM step faults (CallDepthExceeded,
\* CallOutsideTextSegment, or UnsupportedInstruction for an unregistered
\* target), call depth, the frame pointer r10 and the jump log are the same
\* after the faulting step as before it.
C40_FaultingCallHasNoEffect ==
    [][IsFaultingCall =>
         /\ call_depth' = call_depth
         /\ reg'[10] = reg[10]
         /\ jump_log' = jump_log]_vars

====
